---- MODULE Spec2Model ----
(***************************************************************************)
(* Formula evaluation engine of the table exporter: cell addresses,        *)
(* dependency extraction, textual substitution, the restricted expression  *)
(* evaluator and the per-cell evaluation state machine.                    *)
(*                                                                         *)
(* Text is modelled as a sequence of one-character strings, so that the    *)
(* regular expressions, str.replace and the "in" tests of the source act   *)
(* on characters exactly as they do in the source.                         *)
(*                                                                         *)
(* Reading of the source.  The model follows the logic of each function    *)
(* body.  Names that do not line up between the files are read as the      *)
(* callers use them: the keyword col= of ExcelAddress.from_string as the   *)
(* field column, CellType.FORMULA as the member spelled FOMRULA, the       *)
(* methods nested in ValueCell.__init__ as methods of the class, cells as  *)
(* built from (address, value, format) as their __init__ signatures say,   *)
(* and ExcelAddress as ordered by its own __lt__.  A missing format_type   *)
(* is written "general".  FormulaCell calls                                *)
(* self._table.get_cell and src.utils.validators.validate_formula_syntax,  *)
(* neither of which has a body in the sources; both are modelled from the  *)
(* design document and marked so in the model map.                         *)
(***************************************************************************)
EXTENDS Integers, Sequences, FiniteSets, TLC

\* With([ x \in { v } |-> e ]) is e with x naming the value v: a local
\* name whose value is computed once
With(f) == f[CHOOSE x \in DOMAIN f : TRUE]


(***************************************************************************)
(* Characters                                                              *)
(***************************************************************************)
UpperChars ==
    << "A", "B", "C", "D", "E", "F", "G", "H", "I", "J", "K", "L", "M",
       "N", "O", "P", "Q", "R", "S", "T", "U", "V", "W", "X", "Y", "Z" >>

LowerChars ==
    << "a", "b", "c", "d", "e", "f", "g", "h", "i", "j", "k", "l", "m",
       "n", "o", "p", "q", "r", "s", "t", "u", "v", "w", "x", "y", "z" >>

DigitChars == << "0", "1", "2", "3", "4", "5", "6", "7", "8", "9" >>

SeqRange(s) == { s[i] : i \in 1..Len(s) }

IndexOf(s, c) == CHOOSE i \in 1..Len(s) : s[i] = c

IsUpper(c) == c \in SeqRange(UpperChars)
IsLower(c) == c \in SeqRange(LowerChars)
IsLetter(c) == IsUpper(c) \/ IsLower(c)
IsDigit(c) == c \in SeqRange(DigitChars)
\* \w of the re module
IsWord(c) == IsLetter(c) \/ IsDigit(c) \/ c = "_"
\* \s of the re module, and the characters str.strip() removes
IsSpace(c) == c \in { " ", "\t", "\n", "\r", "\f" }

DigitVal(c) == IndexOf(DigitChars, c) - 1

\* ord(char) - 64 for an upper-case letter
LetterVal(c) == IndexOf(UpperChars, c)

UpperChar(c) == IF IsLower(c) THEN UpperChars[IndexOf(LowerChars, c)] ELSE c

\* str.upper()
Upper(s) == [ i \in 1..Len(s) |-> UpperChar(s[i]) ]

\* s[i:] of Python, for a 1-based i
From(s, i) == IF i > Len(s) THEN << >> ELSE SubSeq(s, i, Len(s))

\* s.startswith(p, i-1) of Python, for a 1-based i
MatchAt(s, p, i) ==
    /\ i + Len(p) - 1 <= Len(s)
    /\ \A k \in 1..Len(p) : s[i + k - 1] = p[k]

\* p in s
Contains(s, p) == \E i \in 1..(Len(s) + 1) : MatchAt(s, p, i)

\* the least index at which p occurs in s, 0 when there is none
Find(s, p) ==
    IF Contains(s, p)
    THEN CHOOSE i \in 1..(Len(s) + 1) :
            /\ MatchAt(s, p, i)
            /\ \A j \in 1..(i - 1) : ~MatchAt(s, p, j)
    ELSE 0

\* s.replace(p, r, 1), for a non-empty p
ReplaceFirst(s, p, r) ==
    With([ i \in { Find(s, p) } |->
        IF i = 0 THEN s
        ELSE SubSeq(s, 1, i - 1) \o r \o From(s, i + Len(p)) ])

RECURSIVE ReplaceFrom(_, _, _, _)
ReplaceFrom(s, p, r, i) ==
    IF i > Len(s) THEN << >>
    ELSE IF MatchAt(s, p, i) THEN r \o ReplaceFrom(s, p, r, i + Len(p))
    ELSE << s[i] >> \o ReplaceFrom(s, p, r, i + 1)

\* s.replace(p, r), for a non-empty p: every occurrence, left to right,
\* without overlap
ReplaceAll(s, p, r) == ReplaceFrom(s, p, r, 1)

RECURSIVE LStrip(_)
LStrip(s) == IF s # << >> /\ IsSpace(Head(s)) THEN LStrip(Tail(s)) ELSE s

RECURSIVE RStrip(_)
RStrip(s) ==
    IF s # << >> /\ IsSpace(s[Len(s)]) THEN RStrip(SubSeq(s, 1, Len(s) - 1))
    ELSE s

\* str.strip()
Strip(s) == LStrip(RStrip(s))

\* s.replace('$', '')
RECURSIVE DropDollar(_)
DropDollar(s) ==
    IF s = << >> THEN << >>
    ELSE IF Head(s) = "$" THEN DropDollar(Tail(s))
    ELSE << Head(s) >> \o DropDollar(Tail(s))

\* the number of characters from index i on that satisfy the class test;
\* cls is "letter", "upper", "digit", "word" or "space"
InClass(cls, c) ==
    CASE cls = "letter" -> IsLetter(c)
      [] cls = "upper" -> IsUpper(c)
      [] cls = "digit" -> IsDigit(c)
      [] cls = "word" -> IsWord(c)
      [] cls = "space" -> IsSpace(c)

RECURSIVE RunLen(_, _, _)
RunLen(s, i, cls) ==
    IF i <= Len(s) /\ InClass(cls, s[i]) THEN 1 + RunLen(s, i + 1, cls) ELSE 0

\* int() of a string of decimal digits
RECURSIVE DigitsToInt(_)
DigitsToInt(s) ==
    IF s = << >> THEN 0
    ELSE 10 * DigitsToInt(SubSeq(s, 1, Len(s) - 1)) + DigitVal(s[Len(s)])

RECURSIVE NatToStr(_)
NatToStr(n) ==
    IF n < 10 THEN << DigitChars[n + 1] >>
    ELSE NatToStr(n \div 10) \o << DigitChars[(n % 10) + 1] >>

\* str() of an int
IntToStr(n) == IF n < 0 THEN << "-" >> \o NatToStr(-n) ELSE NatToStr(n)

(***************************************************************************)
(* ExcelAddress                                                            *)
(***************************************************************************)
MaxRow == 1048576
MaxColumn == 16384

\* ExcelAddress.__post_init__: the four bounds tests; TRUE when none raises
ValidAddress(row, column) ==
    /\ ~(row < 1)
    /\ ~(row > MaxRow)
    /\ ~(column < 1)
    /\ ~(column > MaxColumn)

\* the outcome of a function that returns an address or raises ValueError
AddrOk(row, column) == [ ok |-> TRUE, row |-> row, column |-> column ]
AddrError == [ ok |-> FALSE, row |-> 0, column |-> 0 ]

\* ExcelAddress(row, column) without __post_init__
ExcelAddressUnchecked(row, column) == AddrOk(row, column)

\* ExcelAddress(row, column)
ExcelAddress(row, column) ==
    IF ValidAddress(row, column) THEN AddrOk(row, column) ELSE AddrError

\* the outcome of an operator method that returns NotImplemented, for which
\* Python raises TypeError
NotImplemented == [ ok |-> FALSE, row |-> -1, column |-> -1 ]

\* ExcelAddress.__add__: other is a tuple
__add__(self, other) ==
    IF Len(other) = 2
    THEN ExcelAddress(self.row + other[1], self.column + other[2])
    ELSE NotImplemented

\* ExcelAddress.__sub__
__sub__(self, other) ==
    IF Len(other) = 2
    THEN ExcelAddress(self.row - other[1], self.column - other[2])
    ELSE NotImplemented

Addr(row, column) == [ row |-> row, column |-> column ]

\* ExcelAddress.__lt__: row first, then column
AddrLess(a, b) ==
    IF a.row # b.row THEN a.row < b.row ELSE a.column < b.column

\* the loop with divmod(col, 26) in place of divmod(col - 1, 26)
RECURSIVE ColumnLettersNoBorrow(_)
ColumnLettersNoBorrow(col) ==
    IF col > 0
    THEN ColumnLettersNoBorrow(col \div 26) \o << UpperChars[(col % 26) + 1] >>
    ELSE << >>

RECURSIVE ColumnLetters(_)
ColumnLetters(col) ==
    IF col > 0
    THEN ColumnLetters((col - 1) \div 26) \o << UpperChars[((col - 1) % 26) + 1] >>
    ELSE << >>

\* ExcelAddress.to_excel_format, also str(address)
to_excel_format(a) == ColumnLetters(a.column) \o NatToStr(a.row)

RECURSIVE ColumnIndex(_)
ColumnIndex(letters) ==
    IF letters = << >> THEN 0
    ELSE ColumnIndex(SubSeq(letters, 1, Len(letters) - 1)) * 26
            + LetterVal(letters[Len(letters)])

\* address.split('!')[1] when '!' is in address, else address
AfterBang(s) ==
    IF ~Contains(s, << "!" >>) THEN s
    ELSE With([ rest \in { From(s, Find(s, << "!" >>) + 1) } |->
         With([ j \in { Find(rest, << "!" >>) } |->
             IF j = 0 THEN rest ELSE SubSeq(rest, 1, j - 1) ]) ])

\* ExcelAddress.from_string
from_string(address) ==
    With([ a \in { Upper(AfterBang(address)) } |->
    \* "$" of re.match also matches before one trailing newline
    With([ body \in { IF a # << >> /\ a[Len(a)] = "\n"
                      THEN SubSeq(a, 1, Len(a) - 1) ELSE a } |->
    With([ nl \in { RunLen(body, 1, "letter") } |->
    With([ nd \in { RunLen(body, nl + 1, "digit") } |->
        IF nl >= 1 /\ nd >= 1 /\ nl + nd = Len(body)
        THEN ExcelAddress(DigitsToInt(SubSeq(body, nl + 1, nl + nd)),
                          ColumnIndex(SubSeq(body, 1, nl)))
        ELSE AddrError ]) ]) ]) ])

(***************************************************************************)
(* Dependency extraction (FormulaCell.__init__)                            *)
(***************************************************************************)

\* FormulaCell._parse_formula
_parse_formula(formula) ==
    With([ f \in { Strip(formula) } |->
        IF f # << >> /\ Head(f) = "=" THEN Strip(Tail(f)) ELSE f ])

\* the least index j > i with s[j] = q, 0 when there is none
NextQuote(s, i, q) ==
    IF \E j \in (i + 1)..Len(s) : s[j] = q
    THEN CHOOSE j \in (i + 1)..Len(s) :
            s[j] = q /\ \A k \in (i + 1)..(j - 1) : s[k] # q
    ELSE 0

\* re.sub(r'"[^"]*"|\'[^\']*\'', '""', formula)
RECURSIVE StripStrings(_, _)
StripStrings(s, i) ==
    IF i > Len(s) THEN << >>
    ELSE IF s[i] \in { "\"", "'" } /\ NextQuote(s, i, s[i]) # 0
    THEN << "\"", "\"" >> \o StripStrings(s, NextQuote(s, i, s[i]) + 1)
    ELSE << s[i] >> \o StripStrings(s, i + 1)

\* [A-Z]{1,3}\$?[1-9][0-9]{0,6} tried at index i: the index after the
\* match, 0 when it does not match.  withDollar says whether the pattern has
\* the optional \$, letters is "letter" under re.IGNORECASE and "upper"
\* without it.  The letters must be followed by "$" or a digit, so no
\* shorter or longer run of letters than the one that ends there matches.
AddrTokenEnd(s, i, withDollar, letters) ==
    With([ nl \in { RunLen(s, i, letters) } |->
    With([ j \in { i + nl } |->
    With([ k \in { IF withDollar /\ j <= Len(s) /\ s[j] = "$" THEN j + 1 ELSE j } |->
    With([ nd \in { RunLen(s, k, "digit") } |->
    With([ take \in { IF nd > 7 THEN 7 ELSE nd } |->
        IF nl >= 1 /\ nl <= 3 /\ nd >= 1 /\ s[k] # "0" THEN k + take ELSE 0 ]) ]) ]) ]) ])

\* \b at index i (between s[i-1] and s[i])
Boundary(s, i) ==
    With([ before \in { i > 1 /\ i - 1 <= Len(s) /\ IsWord(s[i - 1]) } |->
    With([ after \in { i >= 1 /\ i <= Len(s) /\ IsWord(s[i]) } |->
        before # after ]) ])

\* r'\b([A-Z]{1,3}\$?[1-9][0-9]{0,6})\b' tried at index i
DirectEnd(s, i) ==
    With([ e \in { AddrTokenEnd(s, i, TRUE, "letter") } |->
        IF Boundary(s, i) /\ e # 0 /\ Boundary(s, e) THEN e ELSE 0 ])

\* re.findall of the first pattern: the captured tokens, left to right
RECURSIVE FindDirect(_, _)
FindDirect(s, i) ==
    IF i > Len(s) THEN << >>
    ELSE IF DirectEnd(s, i) # 0
    THEN << SubSeq(s, i, DirectEnd(s, i) - 1) >> \o FindDirect(s, DirectEnd(s, i))
    ELSE FindDirect(s, i + 1)

\* r"(\b[A-Za-z_][A-Za-z0-9_]*)!(ADDR)" tried at index i: the identifier is
\* a whole run of word characters that starts at a boundary with a letter
\* or "_" and is followed by "!"; the result is <<start of ADDR, end>>
QualifiedEnd(s, i, withDollar, letters) ==
    With([ nw \in { RunLen(s, i, "word") } |->
    With([ b \in { i + nw } |->
    With([ e \in { IF b <= Len(s) /\ s[b] = "!" THEN AddrTokenEnd(s, b + 1, withDollar, letters) ELSE 0 } |->
        IF /\ Boundary(s, i)
           /\ nw >= 1
           /\ (IsLetter(s[i]) \/ s[i] = "_")
           /\ e # 0
        THEN << b + 1, e >>
        ELSE << 0, 0 >> ]) ]) ])

\* re.findall of the third pattern: the last group of each match
RECURSIVE FindQualified(_, _)
FindQualified(s, i) ==
    IF i > Len(s) THEN << >>
    ELSE With([ m \in { QualifiedEnd(s, i, TRUE, "letter") } |->
             IF m[2] # 0
             THEN << SubSeq(s, m[1], m[2] - 1) >> \o FindQualified(s, m[2])
             ELSE FindQualified(s, i + 1) ])

\* the addresses of the tokens, whether from_string accepts them or not
TokenAddressesUnchecked(tokens) ==
    { Addr(r.row, r.column) :
        r \in { from_string(Upper(DropDollar(tokens[n]))) : n \in 1..Len(tokens) } }

\* the addresses of the tokens that from_string accepts
TokenAddresses(tokens) ==
    { Addr(r.row, r.column) :
        r \in { q \in { from_string(Upper(DropDollar(tokens[n]))) : n \in 1..Len(tokens) } : q.ok } }

\* FormulaCell._extract_dependencies.  The second pattern, '[^']*'!ADDR,
\* needs two apostrophes; the text it is run on has had every pair of
\* apostrophes replaced, so it never matches and adds nothing.
_extract_dependencies(formula) ==
    With([ text \in { StripStrings(formula, 1) } |->
        TokenAddresses(FindDirect(text, 1)) \cup TokenAddresses(FindQualified(text, 1)) ])

\* r'(ADDR)\s*:\s*(ADDR)' tried at index i: <<end of the first token, start
\* of the second, end of the second>>, all 0 when it does not match
RangeMatch(s, i) ==
    With([ e1 \in { AddrTokenEnd(s, i, TRUE, "letter") } |->
        IF e1 = 0 THEN << 0, 0, 0 >>
        ELSE With([ c \in { e1 + RunLen(s, e1, "space") } |->
             With([ b2 \in { c + 1 + RunLen(s, c + 1, "space") } |->
             With([ e2 \in { AddrTokenEnd(s, b2, TRUE, "letter") } |->
                 IF c <= Len(s) /\ s[c] = ":" /\ e2 # 0
                 THEN << e1, b2, e2 >>
                 ELSE << 0, 0, 0 >> ]) ]) ]) ])

\* re.findall of the range pattern: the pairs <<start_str, end_str>>
RECURSIVE FindRanges(_, _)
FindRanges(s, i) ==
    IF i > Len(s) THEN << >>
    ELSE With([ m \in { RangeMatch(s, i) } |->
             IF m[3] # 0
             THEN << << SubSeq(s, i, m[1] - 1), SubSeq(s, m[2], m[3] - 1) >> >>
                    \o FindRanges(s, m[3])
             ELSE FindRanges(s, i + 1) ])

\* the rows lo..hi, each with the columns cl..ch, as ExcelAddress(row, col)
RECURSIVE RowCells(_, _, _)
RowCells(row, cl, ch) ==
    IF cl > ch THEN << >>
    ELSE << Addr(row, cl) >> \o RowCells(row, cl + 1, ch)

RECURSIVE Rectangle(_, _, _, _)
Rectangle(rl, rh, cl, ch) ==
    IF rl > rh THEN << >>
    ELSE RowCells(rl, cl, ch) \o Rectangle(rl + 1, rh, cl, ch)

Min2(a, b) == IF a < b THEN a ELSE b
Max2(a, b) == IF a > b THEN a ELSE b

\* the address list of one range without min and max: range(start, end + 1)
ExpandRangeAsWritten(start_addr, end_addr) ==
    Rectangle(start_addr.row, end_addr.row, start_addr.column, end_addr.column)

\* the address list of one range: min..max of the rows, inside it min..max
\* of the columns
ExpandRange(start_addr, end_addr) ==
    Rectangle(Min2(start_addr.row, end_addr.row), Max2(start_addr.row, end_addr.row),
              Min2(start_addr.column, end_addr.column),
              Max2(start_addr.column, end_addr.column))

\* range_deps[range_key] = addresses: a dict keeps the place of a key that
\* is assigned again
DictSet(d, key, value) ==
    IF \E n \in 1..Len(d) : d[n].key = key
    THEN [ n \in 1..Len(d) |->
            IF d[n].key = key THEN [ key |-> key, addresses |-> value ] ELSE d[n] ]
    ELSE Append(d, [ key |-> key, addresses |-> value ])

RECURSIVE RangeDict(_, _)
RangeDict(pairs, d) ==
    IF pairs = << >> THEN d
    ELSE With([ start_str \in { DropDollar(pairs[1][1]) } |->
         With([ end_str \in { DropDollar(pairs[1][2]) } |->
         With([ start_addr \in { from_string(Upper(start_str)) } |->
         With([ end_addr \in { from_string(Upper(end_str)) } |->
             IF start_addr.ok /\ end_addr.ok
             THEN RangeDict(Tail(pairs),
                            DictSet(d, start_str \o << ":" >> \o end_str,
                                    ExpandRange(start_addr, end_addr)))
             ELSE RangeDict(Tail(pairs), d) ]) ]) ]) ])

\* FormulaCell._extract_range_dependencies: the dict it returns, as the
\* sequence of its items in insertion order
_extract_range_dependencies(formula) == RangeDict(FindRanges(formula, 1), << >>)

\* the addresses _extract_range_dependencies adds to self._dependencies
RangeAddresses(range_deps) ==
    UNION { SeqRange(range_deps[n].addresses) : n \in 1..Len(range_deps) }

\* r'\b([A-Za-z_][A-Za-z0-9_]*)!([A-Z]{1,3}[1-9][0-9]{0,6})\b'
RECURSIVE FindExternalNamed(_, _)
FindExternalNamed(s, i) ==
    IF i > Len(s) THEN << >>
    ELSE With([ m \in { QualifiedEnd(s, i, FALSE, "upper") } |->
             IF m[2] # 0 /\ Boundary(s, m[2])
             THEN << SubSeq(s, i, m[2] - 1) >> \o FindExternalNamed(s, m[2])
             ELSE FindExternalNamed(s, i + 1) ])

\* r"'([^']+)'!([A-Z]{1,3}[1-9][0-9]{0,6})\b" tried at index i: <<index of
\* the closing apostrophe, end of the match>>
QuotedEnd(s, i) ==
    With([ q \in { IF s[i] = "'" THEN NextQuote(s, i, "'") ELSE 0 } |->
    With([ e \in { IF q > i + 1 /\ q < Len(s) /\ s[q + 1] = "!"
                   THEN AddrTokenEnd(s, q + 2, FALSE, "upper") ELSE 0 } |->
        IF e # 0 /\ Boundary(s, e) THEN << q, e >> ELSE << 0, 0 >> ]) ])

RECURSIVE FindExternalQuoted(_, _)
FindExternalQuoted(s, i) ==
    IF i > Len(s) THEN << >>
    ELSE With([ m \in { QuotedEnd(s, i) } |->
             IF m[2] # 0
             THEN << SubSeq(s, i + 1, m[1] - 1) \o << "!" >> \o SubSeq(s, m[1] + 2, m[2] - 1) >>
                    \o FindExternalQuoted(s, m[2])
             ELSE FindExternalQuoted(s, i + 1) ])

\* FormulaCell._extract_external_references: f"{table_name}!{cell_ref}"
_extract_external_references(formula) ==
    FindExternalNamed(formula, 1) \o FindExternalQuoted(formula, 1)

(***************************************************************************)
(* Values                                                                  *)
(*                                                                         *)
(* A Python value is a record.  A number is n / 10^d with d = 0 or 1: an   *)
(* int has d = 0, a float has d = 1, a Decimal keeps the d it was built    *)
(* with.  The floats computed with are those with one decimal, 0 or 5,     *)
(* which binary floating point holds exactly; any other float (inf, nan,   *)
(* 1e5, 0.1, a result of the math module) is a float whose value is not    *)
(* computed: it carries the text it came from in s.                        *)
(***************************************************************************)
IntV(n) == [ t |-> "int", n |-> n, d |-> 0, s |-> << >> ]
FloatV(n) == [ t |-> "float", n |-> n, d |-> 1, s |-> << >> ]
OpaqueFloat(s) == [ t |-> "float", n |-> 0, d |-> 1, s |-> s ]
DecimalV(n, d) == [ t |-> "decimal", n |-> n, d |-> d, s |-> << >> ]
StrV(s) == [ t |-> "str", n |-> 0, d |-> 0, s |-> s ]
NoneV == [ t |-> "none", n |-> 0, d |-> 0, s |-> << >> ]
FuncV(name) == [ t |-> "func", n |-> 0, d |-> 0, s |-> name ]
\* no value: the evaluation raised
Raised == [ t |-> "raised", n |-> 0, d |-> 0, s |-> << >> ]

IsOpaque(v) == v.t = "float" /\ v.s # << >>

\* the number in tenths
Tenths(v) == IF v.d = 0 THEN v.n * 10 ELSE v.n

\* isinstance(v, (int, float, Decimal))
IsNumeric(v) == v.t \in { "int", "float", "decimal" }

\* the text of n / 10 with one decimal
FixedToStr(n) ==
    With([ a \in { IF n < 0 THEN -n ELSE n } |->
        (IF n < 0 THEN << "-" >> ELSE << >>)
            \o NatToStr(a \div 10) \o << "." >> \o NatToStr(a % 10) ])

\* str(value); the text of a callable or of a float that is not computed
\* is not modelled
Str(v) ==
    CASE v.t = "int" -> IntToStr(v.n)
      [] v.t \in { "float", "decimal" } /\ ~IsOpaque(v) ->
            IF v.d = 0 THEN IntToStr(v.n) ELSE FixedToStr(v.n)
      [] v.t = "none" -> << "N", "o", "n", "e" >>
      [] OTHER -> v.s

\* left + right (sign = 1) and left - right (sign = -1); Raised for the
\* TypeError of a float with a Decimal and of a value that is no number
Add(left, right, sign) ==
    With([ kinds \in { { left.t, right.t } } |->
    With([ d \in { IF left.d > right.d THEN left.d ELSE right.d } |->
    With([ n \in { IF d = 0 THEN left.n + sign * right.n
                   ELSE Tenths(left) + sign * Tenths(right) } |->
        IF ~(IsNumeric(left) /\ IsNumeric(right)) THEN Raised
        ELSE IF kinds = { "int" } THEN IntV(n)
        ELSE IF "decimal" \in kinds
        THEN (IF "float" \in kinds THEN Raised ELSE DecimalV(n, d))
        ELSE IF IsOpaque(left) \/ IsOpaque(right)
        THEN OpaqueFloat(Str(left) \o (IF sign = 1 THEN << "+" >> ELSE << "-" >>) \o Str(right))
        ELSE FloatV(Tenths(left) + sign * Tenths(right)) ]) ]) ])

(***************************************************************************)
(* Expression evaluator                                                    *)
(*                                                                         *)
(* _safe_evaluate_expression, _evaluate_with_ast and _evaluate_ast on the  *)
(* texts that the modelled workbooks produce: letters, digits, "_", ".",   *)
(* blanks, "+", "-", "(", ")", ",", and "$", ":", "!" (which no Python     *)
(* expression of these characters contains, so the parse fails).  Not in   *)
(* the model: the other operators, quoted strings, the Python keywords     *)
(* and the literals 0x.. and 1e5 inside an expression.                     *)
(***************************************************************************)
SUPPORTED_FUNCTIONS ==
    { << "S", "U", "M" >>,
      << "A", "V", "E", "R", "A", "G", "E" >>,
      << "A", "V", "G" >>,
      << "M", "I", "N" >>,
      << "M", "A", "X" >>,
      << "A", "B", "S" >>,
      << "R", "O", "U", "N", "D" >>,
      << "S", "Q", "R", "T" >>,
      << "P", "O", "W", "E", "R" >>,
      << "P", "O", "W" >>,
      << "E", "X", "P" >>,
      << "L", "N" >>,
      << "L", "O", "G" >>,
      << "L", "O", "G", "1", "0" >>,
      << "S", "I", "N" >>,
      << "C", "O", "S" >>,
      << "T", "A", "N" >>,
      << "A", "S", "I", "N" >>,
      << "A", "C", "O", "S" >>,
      << "A", "T", "A", "N" >>,
      << "P", "I" >>,
      << "E" >>,
      << "I", "N", "T" >>,
      << "M", "O", "D" >>,
      << "C", "O", "U", "N", "T" >>,
      << "C", "O", "U", "N", "T", "A" >>,
      << "I", "F" >> }

\* the functions of SUPPORTED_FUNCTIONS that return a float of the math
\* module
FloatFunctions ==
    { << "S", "Q", "R", "T" >>,
      << "P", "O", "W", "E", "R" >>,
      << "P", "O", "W" >>,
      << "E", "X", "P" >>,
      << "L", "N" >>,
      << "L", "O", "G" >>,
      << "L", "O", "G", "1", "0" >>,
      << "S", "I", "N" >>,
      << "C", "O", "S" >>,
      << "T", "A", "N" >>,
      << "A", "S", "I", "N" >>,
      << "A", "C", "O", "S" >>,
      << "A", "T", "A", "N" >>,
      << "P", "I" >>,
      << "E" >> }

LowerChar(c) == IF IsUpper(c) THEN LowerChars[IndexOf(UpperChars, c)] ELSE c
Lower(s) == [ i \in 1..Len(s) |-> LowerChar(s[i]) ]

\* safe_env of _evaluate_with_ast holds each function under its name, the
\* upper-case name and the lower-case name
InEnvAsFunction(id) ==
    \E f \in SUPPORTED_FUNCTIONS : id = f \/ id = Upper(f) \/ id = Lower(f)

EnvFunction(id) == CHOOSE f \in SUPPORTED_FUNCTIONS : id = f \/ id = Upper(f) \/ id = Lower(f)

\* 10 ** k
RECURSIVE Pow10(_)
Pow10(k) == IF k <= 0 THEN 1 ELSE 10 * Pow10(k - 1)

\* n rounded to the nearest multiple of q, the even one of two equally near
RoundHalfEven(n, q) ==
    With([ r \in { n % q } |->
    With([ lo \in { n - r } |->
        IF 2 * r < q THEN lo
        ELSE IF 2 * r > q THEN lo + q
        ELSE IF (lo \div q) % 2 = 0 THEN lo ELSE lo + q ]) ])

\* round(x) and round(x, ndigits) of an int or a float
Round(args) ==
    With([ x \in { args[1] } |->
        IF IsOpaque(x) THEN x
        ELSE IF Len(args) = 1 THEN IntV(RoundHalfEven(Tenths(x), 10) \div 10)
        ELSE IF x.t = "int"
        THEN IntV(IF args[2].n >= 0 THEN x.n ELSE RoundHalfEven(x.n, Pow10(-args[2].n)))
        ELSE IF args[2].n >= 1 THEN x
        ELSE FloatV(RoundHalfEven(x.n, Pow10(1 - args[2].n))) ])

\* int(x): towards zero
Trunc(x) ==
    IF x.t = "int" THEN x
    ELSE IF x.n >= 0 THEN IntV(x.n \div 10) ELSE IntV(-((-x.n) \div 10))

\* min(*args) and max(*args): the first argument that no other is below
\* (above)
Extreme(args, sign) ==
    args[CHOOSE i \in 1..Len(args) :
            /\ \A j \in 1..Len(args) : sign * Tenths(args[i]) <= sign * Tenths(args[j])
            /\ \A j \in 1..(i - 1) : Tenths(args[j]) # Tenths(args[i])]

AllInts(args) == \A i \in 1..Len(args) : args[i].t = "int"
\* ints and floats whose value is computed
AllNumbers(args) ==
    \A i \in 1..Len(args) : args[i].t \in { "int", "float" } /\ ~IsOpaque(args[i])

\* a function of the math module returns: the number of arguments fits and
\* each is a number of the function's domain (results beyond the float
\* range are not in the model)
MathCallOk(f, args) ==
    /\ AllNumbers(args)
    /\ CASE f = << "S", "Q", "R", "T" >> -> Len(args) = 1 /\ args[1].n >= 0
         [] f = << "E", "X", "P" >> -> Len(args) = 1 /\ Tenths(args[1]) <= 7090
         [] f = << "L", "N" >> ->
                \/ Len(args) = 1 /\ args[1].n > 0
                \/ Len(args) = 2 /\ args[1].n > 0 /\ args[2].n > 0 /\ Tenths(args[2]) # 10
         [] f \in { << "L", "O", "G" >>, << "L", "O", "G", "1", "0" >> } ->
                Len(args) = 1 /\ args[1].n > 0
         [] f \in { << "A", "S", "I", "N" >>, << "A", "C", "O", "S" >> } ->
                Len(args) = 1 /\ Tenths(args[1]) >= -10 /\ Tenths(args[1]) <= 10
         [] f \in { << "P", "O", "W", "E", "R" >>, << "P", "O", "W" >> } ->
                /\ Len(args) = 2
                /\ ~(args[1].n = 0 /\ args[2].n < 0)
                /\ ~(args[1].n < 0 /\ args[2].t = "float" /\ args[2].n % 10 # 0)
         [] f \in { << "P", "I" >>, << "E" >> } -> Len(args) = 0
         [] OTHER -> Len(args) = 1

\* func(*args) for a function of SUPPORTED_FUNCTIONS and arguments that are
\* ints, floats or callables; Raised when the call raises
CallFunction(f, args) ==
    CASE f \in { << "A", "V", "E", "R", "A", "G", "E" >>, << "A", "V", "G" >> } ->
            \* lambda args: sum(args) / len(args) if args else 0
            IF Len(args) = 1 /\ AllNumbers(args) /\ args[1].n = 0 THEN IntV(0) ELSE Raised
      [] f \in { << "M", "I", "N" >>, << "M", "A", "X" >> } ->
            IF Len(args) >= 2 /\ AllNumbers(args)
            THEN Extreme(args, IF f = << "M", "I", "N" >> THEN 1 ELSE -1)
            ELSE Raised
      [] f = << "A", "B", "S" >> ->
            IF Len(args) = 1 /\ AllNumbers(args)
            THEN [ args[1] EXCEPT !.n = IF @ < 0 THEN -@ ELSE @ ]
            ELSE Raised
      [] f = << "R", "O", "U", "N", "D" >> ->
            IF \/ Len(args) = 1 /\ AllNumbers(args)
               \/ Len(args) = 2 /\ AllNumbers(args) /\ args[2].t = "int"
            THEN Round(args)
            ELSE Raised
      [] f = << "I", "N", "T" >> ->
            IF Len(args) = 0 THEN IntV(0)
            ELSE IF Len(args) = 1 /\ AllNumbers(args) THEN Trunc(args[1])
            ELSE Raised
      [] f \in FloatFunctions -> IF MathCallOk(f, args) THEN OpaqueFloat(f) ELSE Raised
      [] OTHER ->
            \* sum, len and the one-parameter lambdas MOD and IF raise
            \* TypeError on a number
            Raised

RECURSIVE DropUnderscore(_)
DropUnderscore(s) ==
    IF s = << >> THEN << >>
    ELSE IF Head(s) = "_" THEN DropUnderscore(Tail(s))
    ELSE << Head(s) >> \o DropUnderscore(Tail(s))

\* decimal digits; between two digits there may be one "_"
IsDigitGroup(s) ==
    /\ s # << >>
    /\ \A i \in 1..Len(s) :
         \/ IsDigit(s[i])
         \/ /\ s[i] = "_"
            /\ i > 1 /\ i < Len(s)
            /\ IsDigit(s[i - 1]) /\ IsDigit(s[i + 1])

\* digits "." digits, where one of the two sides may be empty
IsFixedText(s) ==
    With([ p \in { Find(s, << "." >>) } |->
    With([ ip \in { SubSeq(s, 1, p - 1) } |->
    With([ fp \in { From(s, p + 1) } |->
        /\ p # 0
        /\ ip = << >> \/ IsDigitGroup(ip)
        /\ fp = << >> \/ IsDigitGroup(fp)
        /\ ip # << >> \/ fp # << >> ]) ]) ])

\* the float of a text that IsFixedText or IsDigitGroup accepts
FixedValue(s) ==
    With([ p \in { Find(s, << "." >>) } |->
    With([ ip \in { DropUnderscore(IF p = 0 THEN s ELSE SubSeq(s, 1, p - 1)) } |->
    With([ fp \in { DropUnderscore(IF p = 0 THEN << >> ELSE From(s, p + 1)) } |->
    With([ frac \in { IF fp = << >> THEN 0 ELSE DigitVal(fp[1]) } |->
        IF frac \in { 0, 5 } /\ \A k \in 2..Len(fp) : fp[k] = "0"
        THEN FloatV(DigitsToInt(ip) * 10 + frac)
        ELSE OpaqueFloat(s) ]) ]) ]) ])

Unsigned(s) == IF s # << >> /\ s[1] \in { "+", "-" } THEN Tail(s) ELSE s

Signed(s, v) ==
    IF s[1] # "-" THEN v
    ELSE IF IsOpaque(v) THEN OpaqueFloat(<< "-" >> \o v.s)
    ELSE [ v EXCEPT !.n = -@ ]

\* ---- tokens -------------------------------------------------------------
Tok(k, s, v) == [ k |-> k, s |-> s, v |-> v ]
OpTok(c) == Tok("op", << c >>, Raised)
BadTok == Tok("bad", << >>, Raised)
OpChars == { "+", "-", "(", ")", "," }
IsBlank(c) == c \in { " ", "\t", "\f" }

\* the number of characters from index i on that are digits, "_" or "."
RECURSIVE NumRunLen(_, _)
NumRunLen(s, i) ==
    IF i <= Len(s) /\ (IsDigit(s[i]) \/ s[i] \in { "_", "." })
    THEN 1 + NumRunLen(s, i + 1) ELSE 0

\* a number of the Python grammar: an integer without a leading zero
\* (unless all its digits are zero) or a number with a decimal point, and
\* no letter right after it
NumberOk(s, i, n) ==
    With([ lex \in { SubSeq(s, i, i + n - 1) } |->
        /\ \/ IsFixedText(lex)
           \/ /\ IsDigitGroup(lex)
              /\ lex[1] = "0" => \A k \in 1..Len(lex) : lex[k] \in { "0", "_" }
        /\ ~(i + n <= Len(s) /\ IsLetter(s[i + n])) ])

NumberValue(lex) ==
    IF IsDigitGroup(lex) THEN IntV(DigitsToInt(DropUnderscore(lex))) ELSE FixedValue(lex)

RECURSIVE Tokenize(_, _)
Tokenize(s, i) ==
    IF i > Len(s) THEN << >>
    ELSE IF IsBlank(s[i]) THEN Tokenize(s, i + 1)
    ELSE IF IsDigit(s[i]) \/ s[i] = "."
    THEN With([ n \in { NumRunLen(s, i) } |->
             IF NumberOk(s, i, n)
             THEN << Tok("num", << >>, NumberValue(SubSeq(s, i, i + n - 1))) >>
                    \o Tokenize(s, i + n)
             ELSE << BadTok >> ])
    ELSE IF IsWord(s[i])
    THEN With([ nw \in { RunLen(s, i, "word") } |->
             << Tok("name", SubSeq(s, i, i + nw - 1), Raised) >> \o Tokenize(s, i + nw) ])
    ELSE IF s[i] \in OpChars
    THEN << OpTok(s[i]) >> \o Tokenize(s, i + 1)
    ELSE << BadTok >>

\* ---- parse and evaluate -------------------------------------------------
\* The result of a grammar rule: ok (no SyntaxError and no exception so
\* far), the value v of the node, the index p of the next token, and name:
\* the identifier when the node is an ast.Name, whose value is looked up
\* only when it is used as a value and not as the function of a call.
Res(ok, v, p, name) == [ ok |-> ok, v |-> v, p |-> p, name |-> name ]
Fail == Res(FALSE, Raised, 0, << >>)

IsOp(toks, p, c) == p <= Len(toks) /\ toks[p] = OpTok(c)

\* _evaluate_ast on an ast.Name: the callable itself; a name that is not in
\* env, or that is bound to something not callable, raises
NameValue(id) == IF InEnvAsFunction(id) THEN FuncV(EnvFunction(id)) ELSE Raised

\* the value of a node used as an operand or an argument
AsValue(r) ==
    IF ~r.ok THEN Fail
    ELSE IF r.name # << >>
    THEN (IF NameValue(r.name) = Raised THEN Fail
          ELSE Res(TRUE, NameValue(r.name), r.p, << >>))
    ELSE r

\* _evaluate_ast on an ast.BinOp with Add or Sub
BinOp(op, left, right) == Add(left, right, IF op = "+" THEN 1 ELSE -1)

\* _evaluate_ast on an ast.UnaryOp with USub or UAdd
UnaryOp(op, operand) ==
    IF ~(operand.t \in { "int", "float" }) THEN Raised
    ELSE IF op = "+" THEN operand
    ELSE Signed(<< "-" >>, operand)

\* _evaluate_ast on an ast.Call whose func is the ast.Name id
Call(id, args) ==
    IF InEnvAsFunction(id) THEN CallFunction(EnvFunction(id), args) ELSE Raised

RECURSIVE ParseExpr(_, _), ParseMore(_, _), ParseFactor(_, _),
          ParsePrimary(_, _), ParseTrailers(_, _), ParseArgs(_, _, _)

\* arith_expr: factor (('+' | '-') factor)*
ParseExpr(toks, p) == ParseMore(toks, ParseFactor(toks, p))

ParseMore(toks, left) ==
    IF ~left.ok THEN Fail
    ELSE IF IsOp(toks, left.p, "+") \/ IsOp(toks, left.p, "-")
    THEN With([ l \in { AsValue(left) } |->
         With([ r \in { AsValue(ParseFactor(toks, left.p + 1)) } |->
         With([ v \in { BinOp(toks[left.p].s[1], l.v, r.v) } |->
             IF l.ok /\ r.ok /\ v # Raised
             THEN ParseMore(toks, Res(TRUE, v, r.p, << >>))
             ELSE Fail ]) ]) ])
    ELSE left

\* factor: ('+' | '-') factor | primary
ParseFactor(toks, p) ==
    IF IsOp(toks, p, "+") \/ IsOp(toks, p, "-")
    THEN With([ r \in { AsValue(ParseFactor(toks, p + 1)) } |->
         With([ v \in { UnaryOp(toks[p].s[1], r.v) } |->
             IF r.ok /\ v # Raised THEN Res(TRUE, v, r.p, << >>) ELSE Fail ]) ])
    ELSE ParseTrailers(toks, ParsePrimary(toks, p))

\* atom: NUMBER | NAME | '(' expr ')'; "()" and "(a, b)" are tuples, which
\* _evaluate_ast does not support
ParsePrimary(toks, p) ==
    IF p > Len(toks) THEN Fail
    ELSE IF toks[p].k = "num" THEN Res(TRUE, toks[p].v, p + 1, << >>)
    ELSE IF toks[p].k = "name" THEN Res(TRUE, Raised, p + 1, toks[p].s)
    ELSE IF IsOp(toks, p, "(")
    THEN With([ r \in { ParseExpr(toks, p + 1) } |->
             IF r.ok /\ IsOp(toks, r.p, ")") THEN [ r EXCEPT !.p = r.p + 1 ] ELSE Fail ])
    ELSE Fail

\* primary: atom ('(' arguments ')')*; a call is supported on a Name only
ParseTrailers(toks, f) ==
    IF ~f.ok THEN Fail
    ELSE IF IsOp(toks, f.p, "(")
    THEN With([ a \in { ParseArgs(toks, f.p + 1, << >>) } |->
         With([ v \in { Call(f.name, a.args) } |->
             IF a.ok /\ f.name # << >> /\ v # Raised
             THEN ParseTrailers(toks, Res(TRUE, v, a.p, << >>))
             ELSE Fail ]) ])
    ELSE f

\* arguments: [expr (',' expr)* [',']] ')': the values of node.args
ParseArgs(toks, p, args) ==
    IF IsOp(toks, p, ")") THEN [ ok |-> TRUE, args |-> args, p |-> p + 1 ]
    ELSE With([ r \in { AsValue(ParseExpr(toks, p)) } |->
             IF ~r.ok THEN [ ok |-> FALSE, args |-> << >>, p |-> 0 ]
             ELSE IF IsOp(toks, r.p, ",") THEN ParseArgs(toks, r.p + 1, Append(args, r.v))
             ELSE IF IsOp(toks, r.p, ")")
             THEN [ ok |-> TRUE, args |-> Append(args, r.v), p |-> r.p + 1 ]
             ELSE [ ok |-> FALSE, args |-> << >>, p |-> 0 ] ])

\* FormulaCell._evaluate_with_ast: the value, or Raised when ast.parse or
\* _evaluate_ast raises (every exception is raised again as CellEvalError)
_evaluate_with_ast(expression) ==
    With([ toks \in { Tokenize(expression, 1) } |->
    With([ r \in { AsValue(ParseExpr(toks, 1)) } |->
        IF (\E n \in 1..Len(toks) : toks[n].k = "bad") THEN Raised
        ELSE IF r.ok /\ r.p = Len(toks) + 1 THEN r.v
        ELSE Raised ]) ])

\* int(expression) succeeds: an optional sign and a group of digits
IsIntText(s) == IsDigitGroup(Unsigned(s))

IntOfText(s) == Signed(s, IntV(DigitsToInt(DropUnderscore(Unsigned(s)))))

\* float(expression) succeeds, for a text that int() refused: inf,
\* infinity and nan in any case, a number with a decimal point, and either
\* with an exponent
IsFloatText(s) ==
    With([ u \in { Upper(Unsigned(s)) } |->
    With([ x \in { Find(u, << "E" >>) } |->
    With([ m \in { SubSeq(u, 1, x - 1) } |->
        \/ u \in { << "I", "N", "F" >>, << "N", "A", "N" >>,
                   << "I", "N", "F", "I", "N", "I", "T", "Y" >> }
        \/ IsFixedText(u)
        \/ /\ x > 1
           /\ IsDigitGroup(m) \/ IsFixedText(m)
           /\ IsDigitGroup(Unsigned(From(u, x + 1))) ]) ]) ])

FloatOfText(s) ==
    IF IsFixedText(Unsigned(s)) THEN Signed(s, FixedValue(Unsigned(s)))
    ELSE OpaqueFloat(s)

\* _safe_evaluate_expression returning the text it was given
SafeEvaluateKeepsBlanks(text) ==
    With([ expression \in { Strip(text) } |->
        IF expression = << >> THEN StrV(<< >>)
        ELSE IF IsIntText(expression) THEN IntOfText(expression)
        ELSE IF IsFloatText(expression) THEN FloatOfText(expression)
        ELSE IF _evaluate_with_ast(expression) # Raised
        THEN _evaluate_with_ast(expression)
        ELSE StrV(text) ])

\* FormulaCell._safe_evaluate_expression
_safe_evaluate_expression(text) ==
    With([ expression \in { Strip(text) } |->
        IF expression = << >> THEN StrV(<< >>)
        ELSE IF IsIntText(expression) THEN IntOfText(expression)
        ELSE IF IsFloatText(expression) THEN FloatOfText(expression)
        ELSE IF _evaluate_with_ast(expression) # Raised
        THEN _evaluate_with_ast(expression)
        ELSE StrV(expression) ])

(***************************************************************************)
(* Cells and tables                                                        *)
(***************************************************************************)
\* an exception: its kind, the address or stack key it names, and for the
\* CellEvalError that evaluate raises the kind of the exception it wraps
Exc(kind, at, cause) == [ kind |-> kind, at |-> at, cause |-> cause ]
NoExc == Exc("", << >>, "")

\* validate_formula_syntax raises ValueError: the parentheses of the
\* formula do not balance
RECURSIVE ParenDepth(_, _)
ParenDepth(s, depth) ==
    IF s = << >> \/ depth < 0 THEN depth
    ELSE ParenDepth(Tail(s), depth + (IF Head(s) = "(" THEN 1 ELSE IF Head(s) = ")" THEN -1 ELSE 0))

validate_formula_syntax(formula) == ParenDepth(formula, 0) # 0

\* BaseCell.__init__
BaseCell(address, raw_value, cell_type, format_type) ==
    [ address |-> address,
      raw_value |-> raw_value,
      cell_type |-> cell_type,
      format_type |-> format_type,
      evaluation_state |-> "pending",
      cached_value |-> NoneV,
      error_message |-> NoExc,
      dependencies |-> {},
      external_refs |-> << >>,
      parsed_formula |-> << >>,
      range_dependencies |-> << >>,
      syntax_error |-> FALSE ]

\* ValueCell.__init__
ValueCell(address, value, format_type) == BaseCell(address, value, "value", format_type)

\* FormulaCell.__init__
FormulaCell(address, formula, format_type) ==
    [ BaseCell(address, StrV(formula), "formula", format_type) EXCEPT
        !.parsed_formula = _parse_formula(formula),
        !.dependencies = _extract_dependencies(formula)
                            \cup RangeAddresses(_extract_range_dependencies(formula)),
        !.external_refs = _extract_external_references(formula),
        !.range_dependencies = _extract_range_dependencies(formula),
        !.syntax_error = validate_formula_syntax(formula) ]

\* Table.get_cell: the index in table.cells of the cell at the address, 0
\* for None
get_cell(cells, address) ==
    IF \E i \in 1..Len(cells) : cells[i].address = address
    THEN CHOOSE i \in 1..Len(cells) : cells[i].address = address
    ELSE 0

\* stack_key = f"{self._table.id}:{self.address}"
stack_key(tid, address) == << tid, to_excel_format(address) >>

(***************************************************************************)
(* Evaluation                                                              *)
(*                                                                         *)
(* One call of evaluate runs to its end before anything else happens, so   *)
(* it is an operator on the state it reads and writes:                     *)
(*   tables  the cells of every table,                                     *)
(*   has     whether the context dict has the key "evaluation_stack",      *)
(*   stack   the set under that key,                                       *)
(*   ran     the cells whose _do_evaluate was entered, in order,           *)
(*   balanced  whether every call of evaluate so far left the stack as it  *)
(*           found it,                                                     *)
(*   pushed  the keys added to the stack, in order,                        *)
(*   fed     the text last handed to _safe_evaluate_expression and fedBy   *)
(*           the key of the cell that handed it.                           *)
(* order[i] is the sequence in which the dependencies of the table's cell  *)
(* i are iterated.                                                          *)
(***************************************************************************)
St(tables, has, stack, ran) ==
    [ tables |-> tables, has |-> has, stack |-> stack, ran |-> ran,
      balanced |-> TRUE, pushed |-> << >>, fed |-> << >>, fedBy |-> << >>,
      depth |-> 0, deepest |-> 0, moves |-> << >>, failed |-> << >> ]

\* one assignment to _evaluation_state: the cell, its state before and after
Move(key, from, to) == [ key |-> key, from |-> from, to |-> to ]

\* the outcome of a call: the state after it and what it returned or raised
Returned(st, v) == [ st |-> st, raised |-> FALSE, v |-> v, exc |-> NoExc ]
Raises(st, exc) == [ st |-> st, raised |-> TRUE, v |-> Raised, exc |-> exc ]

\* the assignments to the cell made to the cell at the same place of every
\* table
SetCellOfEveryTable(st, tid, i, cell) ==
    [ st EXCEPT !.tables = [ t \in DOMAIN st.tables |->
                                IF i <= Len(st.tables[t])
                                THEN [ st.tables[t] EXCEPT ![i] = cell ]
                                ELSE st.tables[t] ] ]

SetCell(st, tid, i, cell) == [ st EXCEPT !.tables[tid][i] = cell ]

\* the record that cell.evaluate(context) of a dependency raised: where the
\* dependency is, how deep the call that caught it, and in which loop
Caught(st, address, how) ==
    [ st EXCEPT !.failed = Append(@, [ address |-> address, depth |-> st.depth,
                                       how |-> how ]) ]

\* SetCell together with the record of the change of state it makes
Assign(st, tid, i, cell) ==
    [ SetCell(st, tid, i, cell) EXCEPT
        !.moves = Append(@, Move(stack_key(tid, cell.address),
                                 st.tables[tid][i].evaluation_state,
                                 cell.evaluation_state)) ]

\* Decimal(str(value)) for the conversions of ValueCell and FormulaCell;
\* Raised for decimal.InvalidOperation.  The Decimal of a float that is not
\* computed is not computed either; texts with an exponent, inf and nan are
\* not among the values of the model.
ToDecimal(v) ==
    With([ u \in { Unsigned(v.s) } |->
        CASE v.t \in { "int", "float", "decimal" } /\ ~IsOpaque(v) -> DecimalV(v.n, v.d)
          [] IsOpaque(v) -> [ v EXCEPT !.t = "decimal" ]
          [] v.t = "str" /\ IsDigitGroup(u) -> DecimalV(IntOfText(v.s).n, 0)
          [] v.t = "str" /\ IsFixedText(u) /\ ~IsOpaque(FixedValue(u)) ->
                DecimalV(Signed(v.s, FixedValue(u)).n, 1)
          [] OTHER -> Raised ])

\* ValueCell._do_evaluate
ValueCell_do_evaluate(cell) ==
    IF cell.format_type \in { "number", "currency" }
    THEN (IF ToDecimal(cell.raw_value) # Raised THEN ToDecimal(cell.raw_value)
          ELSE cell.raw_value)
    ELSE cell.raw_value

\* sum(v for v in values if isinstance(v, (int, float, Decimal))); Raised
\* for the TypeError of an addition
RECURSIVE Sum(_, _)
Sum(values, acc) ==
    IF values = << >> \/ acc = Raised THEN acc
    ELSE IF IsNumeric(Head(values)) THEN Sum(Tail(values), Add(acc, Head(values), 1))
    ELSE Sum(Tail(values), acc)

\* f"SUM({range_key})"
SumPattern(range_key) == << "S", "U", "M", "(" >> \o range_key \o << ")" >>

\* the four spellings of a reference that _substitute_cell_references
\* replaces: ref_str, then with "$" before ref_str[0] and before
\* ref_str[1:], before ref_str[0] only, before ref_str[1:] only
RefPatterns(ref_str) ==
    << ref_str,
       << "$", ref_str[1] >> \o << "$" >> \o Tail(ref_str),
       << "$", ref_str[1] >> \o Tail(ref_str),
       << ref_str[1] >> \o << "$" >> \o Tail(ref_str) >>

\* for pattern in [...]: if pattern in formula: formula = formula.replace(...)
RECURSIVE ReplacePatterns(_, _, _)
ReplacePatterns(formula, patterns, text) ==
    IF patterns = << >> THEN formula
    ELSE ReplacePatterns(
            IF Contains(formula, Head(patterns))
            THEN ReplaceAll(formula, Head(patterns), text) ELSE formula,
            Tail(patterns), text)

\* evaluate without the test of the cache
ReturnsCachedNever(cell, truthy) == FALSE

\* if self._evaluation_state == CellState.COMPLETED and not context
ReturnsCached(cell, truthy) == cell.evaluation_state = "completed" /\ ~truthy

\* the assignments after _do_evaluate returned, without the one of
\* _error_message
CompletedKeepsMessage(cell, value) ==
    [ cell EXCEPT !.cached_value = value, !.evaluation_state = "completed" ]

\* the assignments of evaluate after _do_evaluate returned value
Completed(cell, value) ==
    [ cell EXCEPT !.cached_value = value,
                  !.evaluation_state = "completed",
                  !.error_message = NoExc ]

\* except Exception as e without the assignment to _evaluation_state
FailedKeepsState(cell, e) == [ cell EXCEPT !.error_message = e ]

\* the assignments of evaluate in except Exception as e
FailedForgetsDependencies(cell, e) ==
    [ cell EXCEPT !.evaluation_state = "error", !.error_message = e,
                  !.dependencies = { } ]

Failed(cell, e) ==
    [ cell EXCEPT !.evaluation_state = "error", !.error_message = e ]

\* _do_evaluate without the finally clause
PopNothing(stack, key) == stack

\* _do_evaluate without the test of the stored syntax error
HasSyntaxErrorNever(cell) == FALSE

\* if self._syntax_error
HasSyntaxError(cell) == cell.syntax_error

\* finally: context["evaluation_stack"].remove(stack_key)
Pop(stack, key) == stack \ { key }

\* the state after a call of evaluate that started in st
Leave(st, r) ==
    [ r EXCEPT !.st.balanced = r.st.balanced /\ r.st.stack = st.stack,
               !.st.depth = st.depth ]

\* the state in which the body of evaluate runs, one call deeper
Enter(st, key) ==
    [ st EXCEPT !.ran = Append(@, key),
                !.depth = @ + 1,
                !.deepest = Max2(@, st.depth + 1) ]

\* evaluate without the test of the state Calculating
IsCalculatingNever(cell) == FALSE

\* if self._evaluation_state == CellState.CALCULATING
IsCalculating(cell) == cell.evaluation_state = "calculating"

RECURSIVE evaluate(_, _, _, _, _), FormulaCell_do_evaluate(_, _, _, _),
          SumValues(_, _, _, _, _), SubstituteRanges(_, _, _, _, _),
          SubstituteDependencies(_, _, _, _, _)

\* BaseCell.evaluate of the cell tables[tid][i]; truthy says whether the
\* context argument is a dict that is not empty
evaluate(st, tid, i, truthy, order) ==
    With([ cell \in { st.tables[tid][i] } |->
        IF IsCalculating(cell)
        THEN Raises(st, Exc("CircularDependency", to_excel_format(cell.address), ""))
        ELSE IF ReturnsCached(cell, truthy)
        THEN Returned(st, cell.cached_value)
        ELSE With([ st1 \in { Enter(Assign(st, tid, i,
                                           [ cell EXCEPT !.evaluation_state = "calculating" ]),
                                    stack_key(tid, cell.address)) } |->
             With([ r \in { IF cell.cell_type = "formula"
                            THEN FormulaCell_do_evaluate(st1, tid, i, order)
                            ELSE Returned(st1, ValueCell_do_evaluate(cell)) } |->
                 Leave(st,
                    IF r.raised
                    THEN Raises(Assign(r.st, tid, i, Failed(r.st.tables[tid][i], r.exc)),
                                Exc("CellEvalError", to_excel_format(cell.address),
                                    r.exc.kind))
                    ELSE Returned(Assign(r.st, tid, i,
                                         Completed(r.st.tables[tid][i], r.v)),
                                  r.v)) ]) ]) ])

\* FormulaCell._do_evaluate
FormulaCell_do_evaluate(st, tid, i, order) ==
    With([ cell \in { st.tables[tid][i] } |->
    With([ key \in { stack_key(tid, cell.address) } |->
    With([ stack \in { IF st.has THEN st.stack ELSE {} } |->
        IF HasSyntaxError(cell) THEN Raises(st, Exc("SyntaxError", << >>, ""))
        ELSE IF key \in stack
        THEN Raises([ st EXCEPT !.has = TRUE, !.stack = stack ],
                    Exc("LoopDependency", key, ""))
        ELSE With([ sub \in { SubstituteDependencies(
                                SubstituteRanges(
                                    Returned([ st EXCEPT !.has = TRUE,
                                                         !.stack = stack \cup { key },
                                                         !.pushed = Append(@, key) ],
                                             StrV(cell.parsed_formula)),
                                    tid, i, cell.range_dependencies, order),
                                tid, i, order[i], order) } |->
             With([ st2 \in { [ sub.st EXCEPT
                                    !.stack = Pop(@, key),
                                    !.fed = IF sub.raised THEN @ ELSE sub.v.s,
                                    !.fedBy = IF sub.raised THEN @ ELSE key ] } |->
                 IF sub.raised THEN Raises(st2, Exc("CalculationError", << >>, sub.exc.kind))
                 ELSE With([ result \in { _safe_evaluate_expression(sub.v.s) } |->
                        IF cell.format_type = "percentage" /\ result.t \in { "int", "float" }
                        THEN (IF ToDecimal(result) = Raised
                              THEN Raises(st2, Exc("CalculationError", << >>,
                                                   "InvalidOperation"))
                              ELSE Returned(st2, ToDecimal(result)))
                        ELSE Returned(st2, result) ]) ]) ]) ]) ]) ])

\* the loop over the addresses of one range: cell.evaluate(context) of each
\* cell that exists, 0 for each that raises
SumValues(st, tid, addresses, values, order) ==
    IF addresses = << >> THEN Returned(st, values)
    ELSE IF get_cell(st.tables[tid], Head(addresses)) = 0
    THEN SumValues(st, tid, Tail(addresses), values, order)
    ELSE With([ r \in { evaluate(st, tid, get_cell(st.tables[tid], Head(addresses)),
                                 TRUE, order) } |->
            SumValues(IF r.raised THEN Caught(r.st, Head(addresses), "range") ELSE r.st,
                      tid, Tail(addresses),
                      Append(values, IF r.raised THEN IntV(0) ELSE r.v), order) ])

\* the first loop of _substitute_cell_references; acc is the state and the
\* formula text so far
SubstituteRanges(acc, tid, i, ranges, order) ==
    IF ranges = << >> \/ acc.raised THEN acc
    ELSE IF ~Contains(Upper(acc.v.s), SumPattern(Head(ranges).key))
    THEN SubstituteRanges(acc, tid, i, Tail(ranges), order)
    ELSE With([ vals \in { SumValues(acc.st, tid, Head(ranges).addresses, << >>, order) } |->
         With([ sum_value \in { Sum(vals.v, IntV(0)) } |->
             IF sum_value = Raised
             THEN Raises(vals.st, Exc("TypeError", << >>, ""))
             ELSE SubstituteRanges(
                    Returned(vals.st,
                             StrV(ReplaceFirst(acc.v.s, SumPattern(Head(ranges).key),
                                               Str(sum_value)))),
                    tid, i, Tail(ranges), order) ]) ])

\* the second loop of _substitute_cell_references
SubstituteDependencies(acc, tid, i, deps, order) ==
    IF deps = << >> \/ acc.raised THEN acc
    ELSE IF get_cell(acc.st.tables[tid], Head(deps)) = 0
    THEN SubstituteDependencies(acc, tid, i, Tail(deps), order)
    ELSE With([ r \in { evaluate(acc.st, tid, get_cell(acc.st.tables[tid], Head(deps)),
                                 TRUE, order) } |->
            IF r.raised
            THEN SubstituteDependencies(Returned(Caught(r.st, Head(deps), "direct"), acc.v),
                                        tid, i, Tail(deps), order)
            ELSE SubstituteDependencies(
                    Returned(r.st,
                             StrV(ReplacePatterns(acc.v.s,
                                                  RefPatterns(to_excel_format(Head(deps))),
                                                  Str(r.v)))),
                    tid, i, Tail(deps), order) ])

\* reset_evaluation without the assignment to _cached_value
ResetKeepsCache(cell) ==
    [ cell EXCEPT !.evaluation_state = "pending", !.error_message = NoExc ]

\* BaseCell.reset_evaluation
reset_evaluation(cell) ==
    [ cell EXCEPT !.evaluation_state = "pending",
                  !.cached_value = NoneV,
                  !.error_message = NoExc ]

(***************************************************************************)
(* Workbooks                                                               *)
(*                                                                         *)
(* The tables the calls are made on.  A table is the sequence of its       *)
(* cells, tables maps the table ids to them.                               *)
(***************************************************************************)
\* the values an API cell carries: whole numbers, up to MaxUnits times 500,
\* a text, and the float 0.5
MaxUnits == 2

Values == { IntV(500 * k) : k \in 1..MaxUnits } \cup { StrV(<< "x" >>) }
Addends == { IntV(500), FloatV(5) }
ValueFormats == { "general", "number" }

\* A1 and B1 refer to each other
CycleBook ==
    [ t \in { "t1" } |->
        << FormulaCell(Addr(1, 1), << "=", "B", "1" >>, "general"),
           FormulaCell(Addr(1, 2), << "=", "A", "1" >>, "general") >> ]

\* the cells A1 of two tables refer to each other
CrossBook ==
    [ t \in { "table1", "table2" } |->
        << FormulaCell(Addr(1, 1),
                       IF t = "table1" THEN << "=", "t", "a", "b", "l", "e", "2", "!", "A", "1" >> ELSE << "=", "t", "a", "b", "l", "e", "1", "!", "A", "1" >>,
                       "general") >> ]

\* two value cells and the sum of a range over them, B2:B3 or, with cells
\* that do not exist, B2:B9
SumFormulas == { << "=", "S", "U", "M", "(", "B", "2", ":", "B", "3", ")" >>, << "=", "S", "U", "M", "(", "B", "2", ":", "B", "9", ")" >> }
SumBook(v1, f1, v2, formula) ==
    [ t \in { "t1" } |->
        << ValueCell(Addr(2, 2), v1, f1),
           ValueCell(Addr(3, 2), v2, "general"),
           FormulaCell(Addr(4, 2), formula, "general") >> ]

\* references to a cell that is in no table
DanglingBook ==
    [ t \in { "t1" } |->
        << FormulaCell(Addr(1, 1), << "=", "Z", "9" >>, "general"),
           FormulaCell(Addr(2, 1), << "=", "Z", "9", "+", "1" >>, "general") >> ]

\* a function that is not in SUPPORTED_FUNCTIONS, a tuple, and a listed
\* function
UnlistedCall == << "=", "F", "O", "O", "(", "1", ")" >>
TupleDisplay == << "=", "(", "1", ",", "2", ")" >>
UnlistedBook ==
    [ t \in { "t1" } |->
        << FormulaCell(Addr(1, 1), UnlistedCall, "general"),
           FormulaCell(Addr(2, 1), TupleDisplay, "general"),
           FormulaCell(Addr(3, 1), << "=", "a", "b", "s", "(", "-", "3", ")" >>, "general") >> ]

\* a value, a formula over it, a formula whose parentheses do not balance
\* and a formula over that one
\* a value cell and formulas that name its address in another table, by an
\* identifier, by a quoted name, and by the same identifier again
ExternalBook ==
    [ t \in { "t1" } |->
        << ValueCell(Addr(1, 1), IntV(500), "general"),
           FormulaCell(Addr(1, 2), << "=", "t", "2", "!", "A", "1" >>, "general"),
           FormulaCell(Addr(1, 3), << "=", "'", "s", "'", "!", "A", "1" >>, "general"),
           FormulaCell(Addr(1, 4), << "=", "t", "2", "!", "A", "1" >>, "general") >> ]

\* two value cells and formulas over ranges written backwards, with a "$",
\* in lower case and with blanks around the colon
RangeBook ==
    [ t \in { "t1" } |->
        << ValueCell(Addr(2, 1), IntV(500), "general"),
           ValueCell(Addr(3, 2), FloatV(5), "general"),
           FormulaCell(Addr(1, 3), << "=", "S", "U", "M", "(", "B", "3", ":", "A", "2", ")" >>, "general"),
           FormulaCell(Addr(2, 3), << "=", "S", "U", "M", "(", "a", "$", "3", " ", ":", " ", "C", "2", ")" >>, "general") >> ]

\* a value cell and formulas that name it next to tokens of the shape of a
\* reference beyond the last column, XFE, and beyond the last row
BoundsBook ==
    [ t \in { "t1" } |->
        << ValueCell(Addr(1, 1), IntV(500), "general"),
           FormulaCell(Addr(1, 2),
                       << "=", "A", "1", "+", "X", "F", "E", "1", "+", "A", "1", "0", "4", "8", "5", "7", "7" >>,
                       "general"),
           FormulaCell(Addr(1, 3),
                       << "=", "S", "U", "M", "(", "A", "1", ":", "X", "F", "E", "2", ")", "+", "s", "!", "$", "Z", "Z", "Z", "$", "9" >>,
                       "general") >> ]

\* a diamond: D1 depends on B1 and C1, which both depend on A1
DiamondBook ==
    [ t \in { "t1" } |->
        << ValueCell(Addr(1, 1), IntV(500), "general"),
           FormulaCell(Addr(1, 2), << "=", "A", "1" >>, "general"),
           FormulaCell(Addr(1, 3), << "=", "A", "1" >>, "general"),
           FormulaCell(Addr(1, 4), << "=", "B", "1", "+", "C", "1" >>, "general") >> ]

\* the four ways of writing a reference to A1, each in a formula of its own
VariantBook(v) ==
    [ t \in { "t1" } |->
        << ValueCell(Addr(1, 1), v, "general"),
           FormulaCell(Addr(1, 2), << "=", "A", "1" >>, "general"),
           FormulaCell(Addr(1, 3), << "=", "$", "A", "$", "1" >>, "general"),
           FormulaCell(Addr(1, 4), << "=", "A", "$", "1" >>, "general"),
           FormulaCell(Addr(1, 5), << "=", "$", "A", "1" >>, "general") >> ]

\* a reference whose text begins with the text of another one
PrefixBook ==
    [ t \in { "t1" } |->
        << ValueCell(Addr(1, 1), IntV(5), "general"),
           ValueCell(Addr(10, 1), IntV(7), "general"),
           FormulaCell(Addr(1, 2), << "=", "A", "1", "+", "A", "1", "0" >>, "general") >> ]

\* the same range summed twice in one formula
TwiceBook ==
    [ t \in { "t1" } |->
        << ValueCell(Addr(2, 2), IntV(1000), "general"),
           ValueCell(Addr(3, 2), IntV(500), "general"),
           FormulaCell(Addr(4, 2),
                       << "=", "S", "U", "M", "(", "B", "2", ":", "B", "3", ")", "+",
                          "S", "U", "M", "(", "B", "2", ":", "B", "3", ")" >>,
                       "general") >> ]

\* a formula whose parentheses do not balance, a value, and formulas over
\* them: the sum of a range, a sum with a number, a reference, and the sum
\* of a range that holds the formula itself
FailBook ==
    [ t \in { "t1" } |->
        << FormulaCell(Addr(1, 1), << "=", "(", "1" >>, "general"),
           ValueCell(Addr(2, 1), IntV(500), "general"),
           FormulaCell(Addr(3, 1),
                       << "=", "S", "U", "M", "(", "A", "1", ":", "A", "2", ")" >>,
                       "general"),
           FormulaCell(Addr(4, 1), << "=", "A", "1", "+", "1" >>, "general"),
           FormulaCell(Addr(5, 1), << "=", "A", "1" >>, "percentage") >> ]

\* formulas with a format hint: one whose result is the float 0.5, one
\* whose result is an int
Hints == { "percentage", "currency" }
HintBook(hint) ==
    [ t \in { "t1" } |->
        << FormulaCell(Addr(1, 1), << "=", "0", ".", "5" >>, hint),
           FormulaCell(Addr(2, 1), << "=", "A", "1", "+", "1" >>, hint) >> ]

ChainBook(v) ==
    [ t \in { "t1" } |->
        << ValueCell(Addr(1, 1), v, "general"),
           FormulaCell(Addr(2, 1), << "=", "A", "1", "+", "1" >>, "percentage"),
           FormulaCell(Addr(3, 1), << "=", "(", "A", "1" >>, "general"),
           FormulaCell(Addr(4, 1), << "=", "A", "3", "+", "A", "2" >>, "general") >> ]

\* a text with blanks around it, a formula that is only a reference to it,
\* and a formula that is no expression
TextBook ==
    [ t \in { "t1" } |->
        << ValueCell(Addr(1, 1), StrV(<< " ", "x", " ", "y", " " >>), "general"),
           FormulaCell(Addr(2, 1), << "=", "A", "1" >>, "general"),
           FormulaCell(Addr(3, 1), << "=", "1", "+" >>, "general") >> ]

Workbooks ==
    { CycleBook, CrossBook, DanglingBook, UnlistedBook, TextBook, ExternalBook,
      RangeBook, BoundsBook, DiamondBook, PrefixBook, TwiceBook, FailBook }
        \cup { VariantBook(v) : v \in { u \in Values : IsNumeric(u) } }
        \cup { SumBook(v1, f1, v2, formula) :
                    v1 \in Values, f1 \in ValueFormats, v2 \in Addends,
                    formula \in SumFormulas }
        \cup { ChainBook(v) : v \in Values }
        \cup { HintBook(hint) : hint \in Hints }

\* the context dicts a caller passes: empty, with a key of the caller's,
\* and, when the first cell of the first table is a formula, with an
\* evaluation stack that holds the key of that cell
FirstTable(book) == CHOOSE t \in DOMAIN book : \A u \in DOMAIN book : Len(t) <= Len(u)

Contexts(book) ==
    { [ user |-> FALSE, has |-> FALSE, stack |-> {} ],
      [ user |-> TRUE, has |-> FALSE, stack |-> {} ] }
        \cup { [ user |-> FALSE, has |-> TRUE,
                 stack |-> { stack_key(FirstTable(book), cell.address) } ] :
                    cell \in { c \in { book[FirstTable(book)][1] } : c.cell_type = "formula" } }

\* the sequences that hold every member of a set once
Orderings(set) ==
    { p \in [ 1..Cardinality(set) -> set ] :
        \A i, j \in 1..Cardinality(set) : i # j => p[i] # p[j] }

\* the dependencies of cells[i] that get_cell finds
Found(cells, i) ==
    cells[i].dependencies \cap { cells[j].address : j \in 1..Len(cells) }

\* the orders in which the dependencies of a table's cells can be iterated:
\* for every cell an order of its dependencies that are cells of the table
RECURSIVE OrdersUpTo(_, _)
OrdersUpTo(cells, n) ==
    IF n = 0 THEN { << >> }
    ELSE { Append(order, p) :
            order \in OrdersUpTo(cells, n - 1), p \in Orderings(Found(cells, n)) }

Orders(cells) == OrdersUpTo(cells, Len(cells))

(***************************************************************************)
(* The state machine                                                       *)
(***************************************************************************)
VARIABLES tables, context, last
vars == << tables, context, last >>

NoCall ==
    [ op |-> "none", tid |-> "", i |-> 0, shared |-> FALSE, raised |-> FALSE,
      truthy |-> FALSE, v |-> NoneV, exc |-> NoExc, ran |-> << >>,
      before |-> << >>, stack_before |-> {}, stack_after |-> {},
      balanced |-> TRUE, pushed |-> << >>, fed |-> << >>, fedBy |-> << >>,
      deepest |-> 0, moves |-> << >>, failed |-> << >> ]

Init ==
    /\ tables \in Workbooks
    /\ context \in Contexts(tables)
    /\ last = [ NoCall EXCEPT !.before = tables ]

\* whether the context of a call is a dict that is not empty
Truthy(shared) == shared /\ (context.user \/ context.has)

\* the state a call starts in: the tables and the dict that context or {} is
Entry(shared) ==
    St(tables, Truthy(shared) /\ context.has,
       IF Truthy(shared) THEN context.stack ELSE {}, << >>)

\* cell.evaluate(), with the shared context or with none
Evaluate(tid, i, shared, order) ==
    \E r \in { evaluate(Entry(shared), tid, i, Truthy(shared), order) } :
        /\ tables' = r.st.tables
        /\ context' = IF Truthy(shared)
                      THEN [ context EXCEPT !.has = r.st.has, !.stack = r.st.stack ]
                      ELSE context
        /\ last' = [ op |-> "evaluate", tid |-> tid, i |-> i, shared |-> shared,
                     truthy |-> Truthy(shared),
                     raised |-> r.raised, v |-> r.v, exc |-> r.exc,
                     ran |-> r.st.ran, before |-> tables,
                     stack_before |-> Entry(shared).stack,
                     stack_after |-> r.st.stack, balanced |-> r.st.balanced,
                     pushed |-> r.st.pushed, fed |-> r.st.fed, fedBy |-> r.st.fedBy,
                     deepest |-> r.st.deepest, moves |-> r.st.moves,
                     failed |-> r.st.failed ]

\* cell.reset_evaluation()
Reset(tid, i) ==
    /\ tables' = [ tables EXCEPT ![tid][i] = reset_evaluation(@) ]
    /\ last' = [ NoCall EXCEPT !.op = "reset", !.tid = tid, !.i = i, !.before = tables ]
    /\ UNCHANGED context

Next ==
    \/ \E tid \in DOMAIN tables : \E i \in 1..Len(tables[tid]) :
            \E shared \in BOOLEAN : \E order \in Orders(tables[tid]) :
                Evaluate(tid, i, shared, order)
    \/ \E tid \in DOMAIN tables : \E i \in 1..Len(tables[tid]) : Reset(tid, i)

Spec == Init /\ [][Next]_vars

(***************************************************************************)
(* Addresses on their own                                                  *)
(*                                                                         *)
(* A second state machine over the same variables: no tables, and last is  *)
(* the latest operation on an ExcelAddress: the address it started from,   *)
(* its argument, the text it read or wrote, and the address it gave or the *)
(* error it raised.                                                        *)
(***************************************************************************)
\* rows and columns at the two ends of the sheet, one step beyond them, and
\* where the text of a row or a column gets one character longer
Rows == { 0, 1, 9, 10, MaxRow, MaxRow + 1 }
Columns == { 0, 1, 26, 27, 702, 703, MaxColumn, MaxColumn + 1 }

\* the tuples added to an address or taken from it: pairs of one step or of
\* a whole sheet, and a tuple that is no pair
Offsets ==
    { << dr, dc >> : dr \in { -1, 0, 1, MaxRow }, dc \in { -1, 0, 1, MaxColumn } }
        \cup { << 1 >> }

\* how many offsets are applied to an address that was constructed or
\* parsed from a caller's text
MaxChain == 1

NoAddressCall ==
    [ op |-> "none", from |-> AddrError, arg |-> << >>, text |-> << >>,
      result |-> AddrError, exc |-> "", chain |-> 0 ]

\* the exception an outcome stands for
ExcOf(result) ==
    IF result.ok THEN ""
    ELSE IF result = NotImplemented THEN "TypeError" ELSE "ValueError"

AddressInit ==
    /\ tables = << >>
    /\ context = [ user |-> FALSE, has |-> FALSE, stack |-> {} ]
    /\ last = NoAddressCall

\* ExcelAddress(row, column)
Construct(row, column) ==
    /\ last' = [ NoAddressCall EXCEPT !.op = "construct", !.arg = << row, column >>,
                                      !.result = ExcelAddress(row, column),
                                      !.exc = ExcOf(ExcelAddress(row, column)) ]
    /\ UNCHANGED << tables, context >>

\* address.to_excel_format() of the address the latest operation gave
Format ==
    /\ last.result.ok
    /\ last.op # "format"
    /\ last' = [ NoAddressCall EXCEPT !.op = "format", !.from = last.result,
                                      !.result = last.result,
                                      !.text = to_excel_format(last.result),
                                      !.chain = last.chain ]
    /\ UNCHANGED << tables, context >>

\* ExcelAddress.from_string of the text the latest operation wrote
Parse ==
    /\ last.op = "format"
    /\ last' = [ NoAddressCall EXCEPT !.op = "parse", !.from = last.from,
                                      !.text = last.text,
                                      !.result = from_string(last.text),
                                      !.exc = ExcOf(from_string(last.text)),
                                      !.chain = last.chain ]
    /\ UNCHANGED << tables, context >>

\* ExcelAddress.from_string of the text a caller writes for a row and a
\* column, which need not be of the sheet; column 0 has no letters
ParseText(row, column) ==
    /\ last' = [ NoAddressCall EXCEPT
                    !.op = "parse_text", !.arg = << row, column >>,
                    !.text = ColumnLetters(column) \o NatToStr(row),
                    !.result = from_string(ColumnLetters(column) \o NatToStr(row)),
                    !.exc = ExcOf(from_string(ColumnLetters(column) \o NatToStr(row))) ]
    /\ UNCHANGED << tables, context >>

\* address + other of the address the latest operation gave
Plus(other) ==
    /\ last.result.ok
    /\ last.chain < MaxChain
    /\ last' = [ NoAddressCall EXCEPT !.op = "add", !.from = last.result, !.arg = other,
                                      !.result = __add__(last.result, other),
                                      !.exc = ExcOf(__add__(last.result, other)),
                                      !.chain = last.chain + 1 ]
    /\ UNCHANGED << tables, context >>

\* address - other
Minus(other) ==
    /\ last.result.ok
    /\ last.chain < MaxChain
    /\ last' = [ NoAddressCall EXCEPT !.op = "sub", !.from = last.result, !.arg = other,
                                      !.result = __sub__(last.result, other),
                                      !.exc = ExcOf(__sub__(last.result, other)),
                                      !.chain = last.chain + 1 ]
    /\ UNCHANGED << tables, context >>

AddressNext ==
    \/ \E row \in Rows : \E column \in Columns : Construct(row, column)
    \/ Format
    \/ Parse
    \/ \E row \in Rows : \E column \in Columns : ParseText(row, column)
    \/ \E other \in Offsets : Plus(other)
    \/ \E other \in Offsets : Minus(other)

AddressSpec == AddressInit /\ [][AddressNext]_vars

(***************************************************************************)
(* Tables and the workbook writer                                          *)
(*                                                                         *)
(* A third state machine over the same variables.  tables is the list of   *)
(* Table objects that main hands to ExcelWriter.write_tables, each built   *)
(* once from an ApiTable; last is the latest call of get_linked_table_ids  *)
(* or write_tables with what it returned or wrote.  Table._create_cell     *)
(* hands the ApiCell to the cell classes, which is read as handing over    *)
(* its row, column, value or formula, and format.  get_value and           *)
(* coordinate of the value and formula cells have no body in the sources   *)
(* and are modelled from the tests and the design document.  The sheet     *)
(* names are such that openpyxl keeps the title it is given.               *)
(***************************************************************************)
\* a dict as the sequence of its items: d[key] = value, key in d, d[key]
Put(d, key, value) ==
    IF \E n \in 1..Len(d) : d[n].key = key
    THEN [ n \in 1..Len(d) |-> IF d[n].key = key THEN [ key |-> key, value |-> value ] ELSE d[n] ]
    ELSE Append(d, [ key |-> key, value |-> value ])
HasKey(d, key) == \E n \in 1..Len(d) : d[n].key = key
Get(d, key) == (CHOOSE e \in SeqRange(d) : e.key = key).value

\* CellReference(table_id=..., cell_address=...)
CellReference(table_id, cell_address) ==
    [ table_id |-> table_id, cell_address |-> cell_address ]

\* ApiCell(row=..., column=..., cell_type=..., ...)
ApiCell(row, column, cell_type, value, formula, reference) ==
    [ row |-> row, column |-> column, cell_type |-> cell_type, value |-> value,
      formula |-> formula, format_type |-> "general", reference |-> reference ]

\* ReferenceHandler.__init__: a cell with the attribute references
ReferenceHandler(api_cell) ==
    [ f \in DOMAIN BaseCell(Addr(1, 1), NoneV, "link", "general") \cup { "references" } |->
        IF f = "references" THEN api_cell.reference
        ELSE BaseCell(Addr(api_cell.row, api_cell.column), api_cell.value, "link",
                      api_cell.format_type)[f] ]

\* what Table._create_cell returns for CellType.EMPTY
None == [ cell_type |-> "none" ]

\* Table._create_cell with a value cell for CellType.EMPTY
CreateCellKeepsEmpty(api_cell) ==
    IF api_cell.cell_type = "formula"
    THEN FormulaCell(Addr(api_cell.row, api_cell.column), api_cell.formula, api_cell.format_type)
    ELSE IF api_cell.cell_type = "link"
    THEN ReferenceHandler(api_cell)
    ELSE ValueCell(Addr(api_cell.row, api_cell.column), api_cell.value, api_cell.format_type)

\* Table._create_cell
_create_cell(api_cell) ==
    IF api_cell.cell_type = "value"
    THEN ValueCell(Addr(api_cell.row, api_cell.column), api_cell.value, api_cell.format_type)
    ELSE IF api_cell.cell_type = "formula"
    THEN FormulaCell(Addr(api_cell.row, api_cell.column), api_cell.formula, api_cell.format_type)
    ELSE IF api_cell.cell_type = "link"
    THEN ReferenceHandler(api_cell)
    ELSE IF api_cell.cell_type = "empty"
    THEN None
    ELSE ValueCell(Addr(api_cell.row, api_cell.column), api_cell.value, api_cell.format_type)

\* Table._process_cells: self.cells after the loop
RECURSIVE _process_cells(_)
_process_cells(api_cells) ==
    IF api_cells = << >> THEN << >>
    ELSE IF _create_cell(Head(api_cells)) # None
    THEN << _create_cell(Head(api_cells)) >> \o _process_cells(Tail(api_cells))
    ELSE _process_cells(Tail(api_cells))

\* Table.__init__
Table(api_table) ==
    [ id |-> api_table.id, name |-> api_table.name,
      cells |-> _process_cells(api_table.cells) ]

\* the table id of the first reference alone
FirstReferencedTableId(cell) ==
    IF cell.references = << >> THEN << >> ELSE << cell.references[1].table_id >>

\* ReferenceHandler.get_referenced_table_ids
get_referenced_table_ids(cell) ==
    [ n \in 1..Len(cell.references) |-> cell.references[n].table_id ]

\* Table.get_linked_table_ids: the set ids after the loop; the list that
\* is returned holds its members in an order of Python's choosing
get_linked_table_ids(table) ==
    UNION { SeqRange(get_referenced_table_ids(table.cells[n])) :
                n \in { k \in 1..Len(table.cells) : table.cells[k].cell_type = "link" } }

\* ReferenceHandler.get_value
ReferenceHandler_get_value(cell) ==
    IF cell.references = << >>
    THEN StrV(<< "R", "e", "f", "e", "r", "e", "n", "c", "e", " ", "E", "r", "r", "o", "r" >>)
    ELSE StrV(<< "L", "I", "N", "K", ":" >> \o cell.references[1].table_id
                \o << "!" >> \o cell.references[1].cell_address)

\* cell.get_value(): of a value cell its value, of a formula cell its text
get_value(cell) ==
    IF cell.cell_type = "link" THEN ReferenceHandler_get_value(cell) ELSE cell.raw_value

\* cell.coordinate
coordinate(cell) == to_excel_format(cell.address)

\* ExcelWriter._sanitize_sheet_name
RECURSIVE _sanitize_sheet_name(_)
_sanitize_sheet_name(name) ==
    IF \E n \in 1..Len(name) : name[n] \in { ":", "\\", "/", "?", "*", "[", "]" }
    THEN _sanitize_sheet_name(
            SelectSeq(name, LAMBDA c : c \notin { ":", "\\", "/", "?", "*", "[", "]" }))
    ELSE SubSeq(name, 1, Min2(31, Len(name)))

\* the while loop of write_tables: the first of original_name,
\* original_name[:28]_1, original_name[:28]_2, ... that is no sheet name yet
RECURSIVE UniqueSheetName(_, _, _, _)
UniqueSheetName(original_name, sheet_name, counter, sheetnames) ==
    IF sheet_name \in SeqRange(sheetnames)
    THEN UniqueSheetName(original_name,
                         SubSeq(original_name, 1, Min2(28, Len(original_name)))
                            \o << "_" >> \o NatToStr(counter),
                         counter + 1, sheetnames)
    ELSE sheet_name

\* the first loop of write_tables: the sheets created, in order, and
\* self.table_id_map as the sequence of its items
RECURSIVE CreateSheets(_, _)
CreateSheets(tbls, wb) ==
    IF tbls = << >> THEN wb
    ELSE With([ sheet_name \in { UniqueSheetName(_sanitize_sheet_name(tbls[1].name),
                                                  _sanitize_sheet_name(tbls[1].name),
                                                  1, wb.sheetnames) } |->
            CreateSheets(Tail(tbls),
                         [ wb EXCEPT !.sheetnames = Append(@, sheet_name),
                                     !.table_id_map = Put(@, tbls[1].id, sheet_name) ]) ])

\* the value write_tables writes for the cell: lines 32 to 45
WrittenValue(cell, table_id_map) ==
    With([ value \in { get_value(cell) } |->
        IF cell.cell_type = "link" /\ value.t = "str" /\ MatchAt(value.s, << "L", "I", "N", "K", ":" >>, 1)
        THEN With([ rest \in { From(value.s, Find(value.s, << ":" >>) + 1) } |->
                IF ~Contains(rest, << "!" >>)
                THEN StrV(<< "#", "E", "R", "R", "O", "R", "!" >>)
                ELSE With([ ref_table_id \in { SubSeq(rest, 1, Find(rest, << "!" >>) - 1) } |->
                     With([ ref_address \in { From(rest, Find(rest, << "!" >>) + 1) } |->
                        IF HasKey(table_id_map, ref_table_id)
                        THEN StrV(<< "=", "'" >> \o Get(table_id_map, ref_table_id)
                                    \o << "'", "!" >> \o ref_address)
                        ELSE StrV(<< "#", "R", "E", "F", "!" >> \o ref_table_id) ]) ]) ])
        ELSE value ])

\* the inner loop of write_tables: ws[cell.coordinate] = value for each
\* cell of the table, ws being the sequence of the items of the sheet
RECURSIVE WriteCells(_, _, _)
WriteCells(cells, ws, table_id_map) ==
    IF cells = << >> THEN ws
    ELSE WriteCells(Tail(cells),
                    Put(ws, coordinate(cells[1]), WrittenValue(cells[1], table_id_map)),
                    table_id_map)

\* the second loop of write_tables
RECURSIVE WriteSheets(_, _)
WriteSheets(tbls, wb) ==
    IF tbls = << >> THEN wb
    ELSE With([ sheet_name \in { Get(wb.table_id_map, tbls[1].id) } |->
            WriteSheets(Tail(tbls),
                        [ wb EXCEPT !.sheets[sheet_name] =
                            WriteCells(tbls[1].cells, @, wb.table_id_map) ]) ])

\* ExcelWriter.write_tables on a new ExcelWriter: the workbook that is saved
write_tables(tbls) ==
    With([ wb \in { CreateSheets(tbls, [ sheetnames |-> << >>, table_id_map |-> << >> ]) } |->
        WriteSheets(tbls,
                    [ sheetnames |-> wb.sheetnames, table_id_map |-> wb.table_id_map,
                      sheets |-> [ n \in SeqRange(wb.sheetnames) |-> << >> ] ]) ])

\* the tables that references name: two that main fetches, one with "!"
\* in its id, and one that is never fetched
T1 == << "t", "1" >>
T2 == << "t", "2" >>
TBang == << "t", "!", "2" >>
T3 == << "t", "3" >>

\* the input cells of the first table: a value, a formula, an empty cell,
\* and links at A2 and B2 with no reference, one, or two
ApiCells ==
    { ApiCell(1, 1, "value", StrV(<< "v" >>), << >>, << >>),
      ApiCell(1, 2, "formula", NoneV, << "=", "A", "1" >>, << >>),
      ApiCell(3, 1, "empty", NoneV, << >>, << >>) }
        \cup { ApiCell(2, 1, "link", NoneV, << >>, refs) :
                    refs \in { << >>,
                               << CellReference(T2, << "A", "1" >>) >>,
                               << CellReference(TBang, << "A", "1" >>) >>,
                               << CellReference(T3, << "B", "2" >>) >>,
                               << CellReference(T2, << "A", "1" >>), CellReference(T3, << "B", "2" >>) >>,
                               << CellReference(T2, << "A", "1" >>), CellReference(T2, << "B", "2" >>) >> } }
        \cup { ApiCell(2, 2, "link", NoneV, << >>, refs) :
                    refs \in { << CellReference(T1, << "A", "1" >>) >>,
                               << CellReference(T3, << "A", "1" >>), CellReference(T2, << "C", "3" >>) >> } }

\* how many input cells the first table has at most
MaxCells == 2

\* the lists of input cells with no address twice
ApiCellLists ==
    { cells \in UNION { [ 1..n -> ApiCells ] : n \in 0..MaxCells } :
        \A i, j \in 1..Len(cells) :
            i # j => << cells[i].row, cells[i].column >> # << cells[j].row, cells[j].column >> }

\* the ApiTables: t1 with the cells above, and t2 and t!2 with one value
\* cell; two of the names are the same sheet name once sanitized
ApiTable(id, name, cells) == [ id |-> id, name |-> name, cells |-> cells ]
Linked(id, name) ==
    ApiTable(id, name, << ApiCell(1, 1, "value", StrV(<< "w" >>), << >>, << >>) >>)

ApiTableLists ==
    UNION { { << ApiTable(T1, << "A" >>, cells), Linked(T2, name) >>,
              << Linked(T2, name), ApiTable(T1, << "A" >>, cells) >>,
              << Linked(TBang, name), ApiTable(T1, << "A" >>, cells), Linked(T2, << "B" >>) >> } :
            cells \in ApiCellLists, name \in { << "A", ":" >>, << "I", "n", "f", "o" >> } }

NoTableCall ==
    [ op |-> "none", k |-> 0, ids |-> { }, list |-> << >>,
      wb |-> [ sheetnames |-> << >>, table_id_map |-> << >>, sheets |-> << >> ] ]

\* context holds the ApiTables that the client returned, tables the Table
\* built from each
TableInit ==
    /\ context \in ApiTableLists
    /\ tables = [ n \in 1..Len(context) |-> Table(context[n]) ]
    /\ last = NoTableCall

\* tables[k].get_linked_table_ids(), the list in one of the orders of the set
GetLinkedTableIds(k, list) ==
    /\ last' = [ NoTableCall EXCEPT !.op = "linked", !.k = k,
                                    !.ids = get_linked_table_ids(tables[k]),
                                    !.list = list ]
    /\ UNCHANGED << tables, context >>

\* ExcelWriter(output_file).write_tables(tables)
WriteTables ==
    /\ last' = [ NoTableCall EXCEPT !.op = "write", !.wb = write_tables(tables) ]
    /\ UNCHANGED << tables, context >>

TableNext ==
    \/ \E k \in 1..Len(tables) :
            \E list \in Orderings(get_linked_table_ids(tables[k])) : GetLinkedTableIds(k, list)
    \/ WriteTables

TableSpec == TableInit /\ [][TableNext]_vars

(***************************************************************************)
(* The loop of main that fetches the tables                                *)
(*                                                                         *)
(* A fourth state machine over the same variables: context is the client,  *)
(* tables the dict fetched_tables, and last holds the locals of main: the  *)
(* list tables_to_process, the set processed_table_ids, and the ids that   *)
(* were passed to client.get_table, in the order of the calls.  A step is  *)
(* one pass through the body of the while loop.                            *)
(***************************************************************************)
\* the ids of the tables
TableIds == { T1, T2, T3 }

\* an ApiTable with a value cell and a link cell that refers to A1 of the
\* tables linked
LinkTable(id, linked) ==
    ApiTable(id, id,
             << ApiCell(1, 1, "value", StrV(<< "w" >>), << >>, << >>),
                ApiCell(2, 1, "link", NoneV, << >>,
                        [ n \in 1..Cardinality(linked) |->
                            CellReference((CHOOSE o \in Orderings(linked) : TRUE)[n],
                                          << "A", "1" >>) ]) >>)

\* the tables a client can have: for some of the ids a table that links to
\* some of the ids
MockData ==
    UNION { [ have -> { linked : linked \in SUBSET TableIds } ] : have \in SUBSET TableIds }

\* the client: with the data of set_mock_mode, or one whose requests may
\* fail
Clients ==
    { [ is_mock |-> is_mock,
        mock_data |-> [ id \in DOMAIN data |-> LinkTable(id, data[id]) ] ] :
            is_mock \in BOOLEAN, data \in MockData }

\* client.get_table(table_id): what it can return, << >> for None
get_table(client, table_id) ==
    IF client.is_mock
    THEN (IF table_id \in DOMAIN client.mock_data
          THEN { << client.mock_data[table_id] >> }
          ELSE { << >> })
    ELSE (IF table_id \in DOMAIN client.mock_data
          THEN { << client.mock_data[table_id] >>, << >> }
          ELSE { << >> })

\* for link_id in linked_ids: append the ids that are neither processed nor
\* in the list
RECURSIVE AppendLinked(_, _, _)
AppendLinked(tables_to_process, processed_table_ids, linked_ids) ==
    IF linked_ids = << >> THEN tables_to_process
    ELSE AppendLinked(
            IF Head(linked_ids) \notin processed_table_ids
                /\ Head(linked_ids) \notin SeqRange(tables_to_process)
            THEN Append(tables_to_process, Head(linked_ids))
            ELSE tables_to_process,
            processed_table_ids, Tail(linked_ids))

NoWorkbook == [ sheetnames |-> << >>, table_id_map |-> << >>, sheets |-> << >> ]

\* main up to the while loop, called with --table-id
MainInit ==
    /\ context \in Clients
    /\ tables = << >>
    /\ last \in { [ op |-> "loop", tables_to_process |-> << table_id >>,
                     processed_table_ids |-> { }, requested |-> << >>,
                     wb |-> NoWorkbook ] : table_id \in TableIds }

\* the ids that the table the client returned links to, none for None
LinkedOf(api_table) ==
    IF api_table = << >> THEN { } ELSE get_linked_table_ids(Table(api_table[1]))

\* one pass through the body of the loop; api_table is what get_table
\* returns when it is called, linked_ids the list of the set of linked ids
LoopBody ==
    /\ last.op = "loop"
    /\ last.tables_to_process # << >>
    /\ \E current_id \in { Head(last.tables_to_process) } :
        \E api_table \in get_table(context, current_id) :
        \E linked_ids \in Orderings(LinkedOf(api_table)) :
            IF current_id \in last.processed_table_ids
            THEN /\ last' = [ last EXCEPT !.tables_to_process = Tail(@) ]
                 /\ UNCHANGED tables
            ELSE IF api_table = << >>
            THEN /\ last' = [ last EXCEPT !.tables_to_process = Tail(@),
                                          !.requested = Append(@, current_id) ]
                 /\ UNCHANGED tables
            ELSE /\ tables' = Put(tables, current_id, Table(api_table[1]))
                 /\ last' = [ last EXCEPT
                        !.requested = Append(@, current_id),
                        !.processed_table_ids = @ \cup { current_id },
                        !.tables_to_process =
                            AppendLinked(Tail(@),
                                         last.processed_table_ids \cup { current_id },
                                         linked_ids) ]
    /\ UNCHANGED context

\* after the loop: nothing when no table was fetched, else
\* writer.write_tables(list(fetched_tables.values()))
AfterLoop ==
    /\ last.op = "loop"
    /\ last.tables_to_process = << >>
    /\ last' = [ last EXCEPT
            !.op = "done",
            !.wb = IF tables = << >> THEN NoWorkbook
                   ELSE write_tables([ n \in 1..Len(tables) |-> tables[n].value ]) ]
    /\ UNCHANGED << tables, context >>

MainNext ==
    \/ LoopBody
    \/ AfterLoop

MainSpec == MainInit /\ [][MainNext]_vars

\* main does not stop in the middle of the loop
MainFairSpec == MainSpec /\ WF_vars(LoopBody)

(***************************************************************************)
(* Properties                                                              *)
(*                                                                         *)
(* last records the latest call: the cell, the context, the tables before  *)
(* it, and what it returned or raised.                                     *)
(***************************************************************************)
\* the cell of the latest call, before the call and after it
CellBefore == last.before[last.tid][last.i]
CellAfter == tables[last.tid][last.i]

\* the latest call raised an error of a circular dependency
RaisedCircular ==
    /\ last.raised
    /\ \/ last.exc.kind = "CircularDependency"
       \/ last.exc.kind = "CellEvalError"
            /\ last.exc.cause \in { "CircularDependency", "LoopDependency" }

\* C1: with A1 "=B1" and B1 "=A1", both Pending, evaluate of either cell
\* raises an error of a circular dependency and does not leave the cell
\* Completed
C1_CycleRaises ==
    (last.op = "evaluate" /\ last.before = CycleBook)
        => (RaisedCircular /\ CellAfter.evaluation_state # "completed")

\* C2: with table1!A1 "=table2!A1" and table2!A1 "=table1!A1", evaluate of
\* either cell with the shared context raises an error of a circular
\* dependency that names a key (table id, address)
C2_CrossTableCycleRaises ==
    (last.op = "evaluate" /\ last.shared /\ last.before = CrossBook)
        => /\ RaisedCircular
           /\ CellAfter.error_message.at
                \in { stack_key(t, Addr(1, 1)) : t \in DOMAIN tables }

\* the latest call is evaluate, with no context or an empty one, of a
\* formula cell that was Completed
CachedCall ==
    /\ last.op = "evaluate"
    /\ ~last.truthy
    /\ CellBefore.cell_type = "formula"
    /\ CellBefore.evaluation_state = "completed"

C4_ErrorIsCached ==
    (last.op = "evaluate" /\ CellBefore.evaluation_state = "error")
        => /\ last.raised
           /\ last.exc.cause = CellBefore.error_message.kind
           /\ last.ran = << >>
           /\ tables = last.before

\* C5: after evaluate, whether it returned or raised, the evaluation stack
\* of the context holds the keys it held before, and so it does after each
\* evaluate called within it
C5_StackRestored ==
    last.op = "evaluate"
        => (last.stack_after = last.stack_before /\ last.balanced)

\* evaluate of a formula cell that pushed its key on a stack that held
\* another, and evaluated a dependency
C5_Witness ==
    /\ last.op = "evaluate"
    /\ CellBefore.cell_type = "formula"
    /\ last.stack_before # {}
    /\ stack_key(last.tid, CellBefore.address) \notin last.stack_before
    /\ Len(last.ran) >= 2
    /\ last.stack_after = last.stack_before

\* C6: when evaluate returns v the cell is Completed, its cached value is
\* v and its error message is cleared; when _do_evaluate fails the cell is
\* in state Error, the message of the failure is stored, and evaluate
\* raises
C6_OutcomeStored ==
    last.op = "evaluate"
        => /\ ~last.raised
                => /\ CellAfter.evaluation_state = "completed"
                   /\ CellAfter.cached_value = last.v
                   /\ CellAfter.error_message = NoExc
           /\ last.raised
                => /\ last.exc.kind = "CellEvalError"
                   /\ CellAfter.evaluation_state = "error"
                   /\ CellAfter.error_message # NoExc
                   /\ CellAfter.error_message.kind = last.exc.cause
                   /\ CellAfter.cached_value = CellBefore.cached_value

\* evaluate returned a value for a cell that was in state Error
C6_Witness ==
    /\ last.op = "evaluate"
    /\ CellBefore.evaluation_state = "error"
    /\ CellBefore.error_message # NoExc
    /\ ~last.raised
    /\ CellAfter.evaluation_state = "completed"
    /\ CellAfter.cached_value = last.v

\* the latest call is evaluate of a formula cell with a range
SumCall ==
    /\ last.op = "evaluate"
    /\ CellBefore.cell_type = "formula"
    /\ CellBefore.range_dependencies # << >>

\* the addresses of the first range of the cell of the latest call
SumAddresses == SeqRange(CellBefore.range_dependencies[1].addresses)

\* the total, in tenths, of the numbers among the values of the cells at
\* the addresses
RECURSIVE TotalTenths(_, _)
TotalTenths(cells, addresses) ==
    IF cells = << >> THEN 0
    ELSE TotalTenths(Tail(cells), addresses)
            + (IF Head(cells).address \in addresses /\ IsNumeric(Head(cells).raw_value)
               THEN Tenths(Head(cells).raw_value) ELSE 0)

\* the latest call returned the total of the range
ReturnedTotal ==
    /\ ~last.raised
    /\ IsNumeric(last.v)
    /\ Tenths(last.v) = TotalTenths(last.before[last.tid], SumAddresses)

\* C7: a formula =SUM(X:Y) evaluates to the sum of the values of the
\* numeric cells of its table inside the rectangle X:Y; with B2 = 1000 and
\* B3 = 500, =SUM(B2:B3) is 1500
C7_SumOfRange == SumCall => ReturnedTotal

\* C8: a formula =SUM(X:Y) whose rectangle has addresses with no cell does
\* not raise: it returns the sum of the numeric cells that exist and the
\* cell ends Completed
C8_MissingCellsCountZero ==
    (SumCall /\ \E a \in SumAddresses : get_cell(last.before[last.tid], a) = 0)
        => (ReturnedTotal /\ CellAfter.evaluation_state = "completed")

\* C9: a formula that is only a reference to a cell its table does not
\* have evaluates to the empty text, and evaluate does not raise
C9_DanglingIsEmptyText ==
    (/\ last.op = "evaluate"
     /\ CellBefore.cell_type = "formula"
     /\ \E a \in CellBefore.dependencies :
            /\ get_cell(last.before[last.tid], a) = 0
            /\ CellBefore.parsed_formula = to_excel_format(a))
        => (~last.raised /\ last.v = StrV(<< >>))

\* C10: evaluate of a formula that calls a function that is not in
\* SUPPORTED_FUNCTIONS, or that is a construct outside the grammar, raises
\* and leaves the cell in state Error
C10_UnlistedRaises ==
    (last.op = "evaluate" /\ CellBefore.raw_value.s \in { UnlistedCall, TupleDisplay })
        => (last.raised /\ CellAfter.evaluation_state = "error")

\* the latest call is evaluate of a formula cell whose _do_evaluate handed
\* last.fed to _safe_evaluate_expression, and that text, without the blanks
\* around it, is no literal of int() or float() and no expression that
\* _evaluate_with_ast evaluates
FedNoExpression ==
    /\ last.op = "evaluate"
    /\ CellBefore.cell_type = "formula"
    /\ last.fedBy = stack_key(last.tid, CellBefore.address)
    /\ Strip(last.fed) # << >>
    /\ ~IsIntText(Strip(last.fed))
    /\ ~IsFloatText(Strip(last.fed))
    /\ _evaluate_with_ast(Strip(last.fed)) = Raised

\* evaluate returned the text and the cell is Completed with it as its
\* cached value
ReturnedText(text) ==
    /\ ~last.raised
    /\ last.v = StrV(text)
    /\ CellAfter.evaluation_state = "completed"
    /\ CellAfter.cached_value = StrV(text)

\* C11 as stated: when the substituted text is no numeric literal and does
\* not parse, evaluate returns that text unchanged and the cell is
\* Completed with it as its cached value
C11_TextReturnedUnchanged == FedNoExpression => ReturnedText(last.fed)

\* C11: when the substituted text is no numeric literal and does not parse,
\* evaluate returns that text without the blanks at its ends, no error is
\* raised, and the cell is Completed with that text as its cached value
C11_TextReturnedStripped == FedNoExpression => ReturnedText(Strip(last.fed))

\* such a call where the substituted text has blanks at its ends
C11_Witness ==
    /\ FedNoExpression
    /\ Strip(last.fed) # last.fed
    /\ ReturnedText(Strip(last.fed))

\* the formula cells of the tables whose text fails the syntax check
Unbalanced ==
    { c \in UNION { SeqRange(tables[t]) : t \in DOMAIN tables } :
        c.cell_type = "formula" /\ validate_formula_syntax(c.raw_value.s) }

C13_ResetIsLocal ==
    last.op = "reset"
        => /\ CellAfter = [ CellBefore EXCEPT !.evaluation_state = "pending",
                                              !.cached_value = NoneV,
                                              !.error_message = NoExc ]
           /\ \A t \in DOMAIN tables : \A j \in 1..Len(tables[t]) :
                    << t, j >> # << last.tid, last.i >>
                        => tables[t][j] = last.before[t][j]

\* reset_evaluation of a Completed cell with a cached value while a
\* formula cell that depends on it is Completed
C13_Witness ==
    /\ last.op = "reset"
    /\ CellBefore.evaluation_state = "completed"
    /\ CellBefore.cached_value # NoneV
    /\ CellAfter.evaluation_state = "pending"
    /\ \E j \in 1..Len(tables[last.tid]) :
            /\ j # last.i
            /\ CellBefore.address \in tables[last.tid][j].dependencies
            /\ tables[last.tid][j].evaluation_state = "completed"

\* the latest call is evaluate of a formula cell with the format hint, whose
\* _do_evaluate got a number from _safe_evaluate_expression
NumericResult(hints) ==
    /\ last.op = "evaluate"
    /\ CellBefore.cell_type = "formula"
    /\ CellBefore.format_type \in hints
    /\ last.fedBy = stack_key(last.tid, CellBefore.address)
    /\ IsNumeric(_safe_evaluate_expression(last.fed))

\* evaluate returned the Decimal of that number
ReturnedDecimal ==
    /\ ~last.raised
    /\ last.v.t = "decimal"
    /\ last.v.s = _safe_evaluate_expression(last.fed).s
    /\ Tenths(last.v) = Tenths(_safe_evaluate_expression(last.fed))

\* C14: evaluate of a formula cell whose format hint is percentage or
\* currency and whose expression result is a number returns the Decimal of
\* equal value, never a float; a percentage formula producing 0.5 returns
\* the Decimal 0.5
C14_HintGivesDecimal == NumericResult(Hints) => ReturnedDecimal

\* the addresses the external references of the cell name
ExternalAddresses(cell) ==
    { Addr(r.row, r.column) :
        r \in { q \in { from_string(cell.external_refs[n]) : n \in 1..Len(cell.external_refs) } : q.ok } }

\* a formula cell with external references whose text names their addresses
\* nowhere else
OnlyExternal(cell) ==
    /\ cell.cell_type = "formula"
    /\ cell.external_refs # << >>
    /\ \A a \in ExternalAddresses(cell) :
            Find(From(cell.raw_value.s, Find(cell.raw_value.s, to_excel_format(a)) + 1),
                 to_excel_format(a)) = 0

\* C15: the address of an external reference, identifier!ADDR or
\* 'quoted name'!ADDR, is not in the direct dependency set of the formula,
\* and evaluating the formula never evaluates the cell of its own table at
\* that address
C15_ExternalNotDependency ==
    /\ \A t \in DOMAIN tables : \A n \in 1..Len(tables[t]) :
            OnlyExternal(tables[t][n])
                => ExternalAddresses(tables[t][n]) \cap tables[t][n].dependencies = { }
    /\ (last.op = "evaluate" /\ OnlyExternal(CellBefore))
            => \A a \in ExternalAddresses(CellBefore) :
                    stack_key(last.tid, a) \notin SeqRange(last.ran)

\* the two ends of a range key "S:E"
KeyStart(key) == SubSeq(key, 1, Find(key, << ":" >>) - 1)
KeyEnd(key) == From(key, Find(key, << ":" >>) + 1)

\* addresses is the rectangle of the rows rl..rh and the columns cl..ch, row
\* by row, each row from its lowest column
RowMajor(addresses, rl, rh, cl, ch) ==
    /\ Len(addresses) = (rh - rl + 1) * (ch - cl + 1)
    /\ \A k \in 1..Len(addresses) :
            addresses[k] = Addr(rl + ((k - 1) \div (ch - cl + 1)), cl + ((k - 1) % (ch - cl + 1)))

\* the entry of the range map is the rectangle between the ends s and e
IsRectangle(entry, s, e) ==
    RowMajor(entry.addresses, Min2(s.row, e.row), Max2(s.row, e.row),
             Min2(s.column, e.column), Max2(s.column, e.column))

\* a range token of the text whose two ends are addresses
ValidRangeToken(pair) ==
    /\ from_string(Upper(DropDollar(pair[1]))).ok
    /\ from_string(Upper(DropDollar(pair[2]))).ok

HoldsExtraction(cell) ==
    /\ cell.dependencies
            = _extract_dependencies(cell.raw_value.s)
                \cup RangeAddresses(_extract_range_dependencies(cell.raw_value.s))
    /\ cell.range_dependencies = _extract_range_dependencies(cell.raw_value.s)
    /\ cell.external_refs = _extract_external_references(cell.raw_value.s)

\* the two cells have the same dependency set, range map and external list
SameExtraction(c1, c2) ==
    /\ c1.dependencies = c2.dependencies
    /\ c1.range_dependencies = c2.range_dependencies
    /\ c1.external_refs = c2.external_refs

\* the formula cells of the tables
FormulaCells ==
    { c \in UNION { SeqRange(tables[t]) : t \in DOMAIN tables } : c.cell_type = "formula" }

ReferenceTokens(cell) ==
    SeqRange(FindDirect(StripStrings(cell.raw_value.s, 1), 1))
        \cup SeqRange(FindQualified(StripStrings(cell.raw_value.s, 1), 1))

\* the token names a cell of the sheet: its column is at most XFD and its
\* row at most 1048576
WellFormed(token) == from_string(Upper(DropDollar(token))).ok

InSheet(row, column) == row \in 1..1048576 /\ column \in 1..16384

\* the address the latest offset would give, were it not checked
OffsetTarget ==
    IF last.op = "add"
    THEN << last.from.row + last.arg[1], last.from.column + last.arg[2] >>
    ELSE << last.from.row - last.arg[1], last.from.column - last.arg[2] >>

LinkCells == { c \in SeqRange(tables[last.k].cells) : c.cell_type = "link" }

NonEmpty(k) == SelectSeq(context[k].cells, LAMBDA c : c.cell_type # "empty")

\* the cell is the Value, Formula or Reference cell of the input cell
BuiltFrom(cell, api_cell) ==
    /\ cell.address = Addr(api_cell.row, api_cell.column)
    /\ cell.cell_type = api_cell.cell_type
    /\ api_cell.cell_type = "value" => cell.raw_value = api_cell.value
    /\ api_cell.cell_type = "formula" => cell.raw_value = StrV(api_cell.formula)
    /\ api_cell.cell_type = "link" => cell.references = api_cell.reference

ListedIds == { tables[k].id : k \in 1..Len(tables) }

\* what the workbook holds at the coordinate of the cell of the k-th table
Written(k, cell) ==
    Get(last.wb.sheets[Get(last.wb.table_id_map, tables[k].id)], coordinate(cell))

\* what a Reference cell is to be written as: ='sheet'!address when its
\* first reference names a table of the list, else #REF! and the table id
ExpectedLink(cell) ==
    IF cell.references[1].table_id \in ListedIds
    THEN StrV(<< "=", "'" >> \o Get(last.wb.table_id_map, cell.references[1].table_id)
                \o << "'", "!" >> \o cell.references[1].cell_address)
    ELSE StrV(<< "#", "R", "E", "F", "!" >> \o cell.references[1].table_id)

\* C23: after write_tables, every Reference cell with a reference is
\* written as ='<sheet name of the table its first reference names>'!<cell
\* address> when that table is in the list, before or after the table of
\* the cell, and as #REF!<table id> when it is not
C23_LinksWritten ==
    last.op = "write" =>
        \A k \in 1..Len(tables) : \A n \in 1..Len(tables[k].cells) :
            (tables[k].cells[n].cell_type = "link" /\ tables[k].cells[n].references # << >>)
                => Written(k, tables[k].cells[n]) = ExpectedLink(tables[k].cells[n])

\* how many times the evaluation body of the cell with the key ran in the
\* latest call
Runs(key) == Cardinality({ n \in 1..Len(last.ran) : last.ran[n] = key })

\* C24: during one top-level evaluate, the evaluation body of a cell other
\* than the one evaluated does not run when the cell was Completed before
\* the call, and runs at most once when the call leaves it Completed: in a
\* diamond the body of the shared cell runs exactly once
C24_CompletedNotRerun ==
    last.op = "evaluate" =>
        \A n \in 1..Len(tables[last.tid]) :
            n # last.i =>
                /\ last.before[last.tid][n].evaluation_state = "completed"
                        => Runs(stack_key(last.tid, tables[last.tid][n].address)) = 0
                /\ tables[last.tid][n].evaluation_state = "completed"
                        => Runs(stack_key(last.tid, tables[last.tid][n].address)) <= 1

\* the cells of all the tables
AllCells == UNION { { << tid, n >> : n \in 1..Len(tables[tid]) } : tid \in DOMAIN tables }

\* the changes of state that entered the body of evaluate
Entries == { n \in 1..Len(last.moves) : last.moves[n].to = "calculating" }

\* C25: a top-level evaluate returns or raises, with formulas in a cycle
\* too: the body of evaluate is never entered for a cell that is in state
\* Calculating, and the calls of evaluate are never nested deeper than
\* there are cells.
C25_BoundedRecursion ==
    last.op = "evaluate" =>
        /\ \A n \in Entries : last.moves[n].from # "calculating"
        /\ last.deepest <= Cardinality(AllCells)
        /\ Len(last.ran) = Cardinality(Entries)

\* a cell in a cycle was evaluated: the call went as deep as there are
\* cells, entered each of the two once and came back
C25_Witness ==
    /\ last.op = "evaluate"
    /\ last.before = CycleBook
    /\ last.deepest = Cardinality(AllCells)
    /\ last.deepest = 2
    /\ Len(last.ran) = 2

\* the keys of the formula cells of the table of the latest call
FormulaKeys ==
    { stack_key(last.tid, c.address) :
        c \in { d \in SeqRange(tables[last.tid]) : d.cell_type = "formula" } }

\* Pending -> Calculating, Calculating -> Completed, Calculating -> Error
Lifecycle ==
    { << "pending", "calculating" >>, << "calculating", "completed" >>,
      << "calculating", "error" >> }

\* the caller passed a context that is not empty to the cell the move is of,
\* the one way evaluate has of asking for a recompute
Forced(move) ==
    /\ last.truthy
    /\ move.key = stack_key(last.tid, tables[last.tid][last.i].address)
    /\ << move.from, move.to >> = << "completed", "calculating" >>

\* C26: the state of a formula cell changes only from Pending to
\* Calculating and from Calculating to Completed or Error, and to Pending
\* only by reset_evaluation: a cell that is Completed or in Error does not
\* become Calculating again unless it was reset or the recompute was forced
C26_Lifecycle ==
    /\ last.op = "evaluate" =>
            /\ \A n \in 1..Len(last.moves) :
                    last.moves[n].key \in FormulaKeys =>
                        \/ << last.moves[n].from, last.moves[n].to >> \in Lifecycle
                        \/ Forced(last.moves[n])
            /\ \A t \in DOMAIN tables : \A n \in 1..Len(tables[t]) :
                    (tables[t][n].evaluation_state = "pending"
                        => last.before[t][n].evaluation_state = "pending")
    /\ last.op = "reset" => tables[last.tid][last.i].evaluation_state = "pending"

\* =A1, =$A$1, =A$1 and =$A1
Variants ==
    { << "=", "A", "1" >>, << "=", "$", "A", "$", "1" >>,
      << "=", "A", "$", "1" >>, << "=", "$", "A", "1" >> }

\* the value cells of the table of the latest call that hold a number
NumberCells ==
    { c \in SeqRange(last.before[last.tid]) :
        c.cell_type = "value" /\ c.format_type = "general" /\ IsNumeric(c.raw_value) }

\* C27: when A1 holds the number v, a formula that is a reference to A1,
\* written with or without $ before the column and before the row,
\* evaluates to v
C27_AnchoredForms ==
    last.op = "evaluate" =>
        \A c \in NumberCells :
            (c.address = Addr(1, 1)
                /\ CellBefore.cell_type = "formula"
                /\ CellBefore.format_type = "general"
                /\ CellBefore.raw_value.s \in Variants)
                    => (~last.raised /\ last.v = c.raw_value)

\* C28: the text of one reference inside the text of another is left
\* alone: with A1 = 5 and A10 = 7 the formula =A1+A10 evaluates to 12, in
\* whichever order its dependencies are replaced
C28_PrefixReference ==
    (last.op = "evaluate" /\ last.before = PrefixBook /\ last.i = 3)
        => (~last.raised /\ last.v = IntV(12))

\* C29: every SUM over the same range is replaced by the sum: with
\* B2 = 1000 and B3 = 500 the formula =SUM(B2:B3)+SUM(B2:B3) evaluates to
\* 3000
C29_RangeTwice ==
    (last.op = "evaluate" /\ last.before = TwiceBook /\ last.i = 3)
        => (~last.raised /\ last.v = IntV(3000))

\* the tables with every cell as it was built, before any evaluation
Fresh ==
    [ t \in DOMAIN tables |->
        [ n \in 1..Len(tables[t]) |-> reset_evaluation(tables[t][n]) ] ]

\* the value a first evaluate() of the cell gives on the tables as built,
\* with the dependency sets iterated in the given order
FreshValue(t, n, order) == evaluate(St(Fresh, FALSE, {}, << >>), t, n, FALSE, order).v

\* C30: the value cached for a cell depends on the contents of the tables
\* only: after any sequence of evaluate() and reset_evaluation() calls it
\* is the value a first evaluation of that cell alone gives, for every
\* order of iterating the dependency sets
C30_Deterministic ==
    (~context.user /\ ~context.has) =>
        \A t \in DOMAIN tables : \A n \in 1..Len(tables[t]) :
            tables[t][n].evaluation_state = "completed" =>
                \A order \in Orders(Fresh[t]) :
                    FreshValue(t, n, order) = tables[t][n].cached_value

\* what of a cell no evaluation may change: all but the state, the cached
\* value and the message
Built(cell) == reset_evaluation(cell)

\* C31: evaluate of a cell of a table changes the state and the cached
\* value of cells of that table only: the cells of every other table are
\* as they were, and every table holds the cells it held, in the same
\* order
C31_OwnTableOnly ==
    last.op = "evaluate" =>
        /\ DOMAIN tables = DOMAIN last.before
        /\ \A t \in DOMAIN tables :
                /\ t # last.tid => tables[t] = last.before[t]
                /\ Len(tables[t]) = Len(last.before[t])
                /\ \A n \in 1..Len(tables[t]) :
                        Built(tables[t][n]) = Built(last.before[t][n])

\* a formula that names a cell of another table was evaluated and became
\* Completed, and the other table has a cell that had been evaluated before
C31_Witness ==
    /\ last.op = "evaluate"
    /\ CellBefore.external_refs # << >>
    /\ CellBefore.evaluation_state = "pending"
    /\ CellAfter.evaluation_state = "completed"
    /\ \E t \in DOMAIN tables \ { last.tid } :
            \E n \in 1..Len(tables[t]) : tables[t][n].evaluation_state = "completed"

\* the dependencies whose evaluate raised within the body of the cell the
\* latest call was made on, in the given loop of the substitution
CaughtAt(how) ==
    { last.failed[n].address :
        n \in { m \in 1..Len(last.failed) :
                    last.failed[m].depth = 1 /\ last.failed[m].how = how } }

\* the cached values of the cells at the addresses that did not raise
RECURSIVE Counted(_, _)
Counted(addresses, left) ==
    IF addresses = << >> THEN << >>
    ELSE IF Head(addresses) \in left \/ get_cell(tables[last.tid], Head(addresses)) = 0
    THEN Counted(Tail(addresses), left)
    ELSE << tables[last.tid][get_cell(tables[last.tid], Head(addresses))].cached_value >>
            \o Counted(Tail(addresses), left)

\* C32: when evaluate of a dependency raises, evaluate of the formula that
\* depends on it returns and leaves the cell Completed; in a formula
\* without ranges the reference to it is left as it is written in the text
\* that is computed, and in the sum of a range it counts as 0
C32_FailureContained ==
    (last.op = "evaluate" /\ CaughtAt("direct") \cup CaughtAt("range") # { }) =>
        /\ ~last.raised
        /\ CellAfter.evaluation_state = "completed"
        /\ CellAfter.cached_value = last.v
        /\ last.fedBy = stack_key(last.tid, CellAfter.address)
        /\ CellAfter.range_dependencies = << >> =>
                \A a \in CaughtAt("direct") : Contains(last.fed, to_excel_format(a))
        /\ \A n \in 1..Len(CellAfter.range_dependencies) :
                CellAfter.parsed_formula = SumPattern(CellAfter.range_dependencies[n].key)
                    => /\ IsNumeric(last.v)
                       /\ Tenths(last.v)
                            = Tenths(Sum(Counted(CellAfter.range_dependencies[n].addresses,
                                                 CaughtAt("range")),
                                         IntV(0)))

\* the keys of the cells that became Calculating in the latest call
Entered == { last.moves[n].key : n \in Entries }

\* C33: after a top-level evaluate has returned or raised no cell of any
\* table is in state Calculating: every cell that became Calculating in
\* the call is Completed or in Error
C33_NoneLeftCalculating ==
    /\ \A t \in DOMAIN tables : \A n \in 1..Len(tables[t]) :
            tables[t][n].evaluation_state # "calculating"
    /\ last.op = "evaluate" =>
            \A n \in 1..Len(tables[last.tid]) :
                stack_key(last.tid, tables[last.tid][n].address) \in Entered
                    => tables[last.tid][n].evaluation_state \in { "completed", "error" }

\* a call raised after the cell and at least one of its dependencies had
\* become Calculating
C33_Witness ==
    /\ last.op = "evaluate"
    /\ last.raised
    /\ Cardinality(Entered) >= 2
    /\ CellAfter.evaluation_state = "error"

\* C34: the loop of main that fetches the tables asks the client for each
\* table id at most once, with tables that link to each other in a cycle
\* and with tables the client does not return
C34_RequestedOnce ==
    last.op \in { "loop", "done" } =>
        \A m, n \in 1..Len(last.requested) :
            m # n => last.requested[m] # last.requested[n]

\* what every pass through the body of the loop makes less: the tables not
\* yet processed, each counted more than the list can grow by, and the
\* length of the list
Remaining ==
    Cardinality(TableIds \ last.processed_table_ids) * (Cardinality(TableIds) + 1)
        + Len(last.tables_to_process)

\* the loop of main comes to its end: every pass makes Remaining less, and
\* the list becomes empty
C34_PassesDecrease == [][LoopBody => Remaining' < Remaining]_vars
C34_Terminates == <>(last.tables_to_process = << >>)

====
